---- MODULE Spec2Model ----
(***************************************************************************)
(* r-share: one file transfer between a sender (args/serve.rs) and a       *)
(* receiver (args/listen.rs) through an untrusted relay                    *)
(* (server/relay.rs is the client side of the relay's HTTP + TCP surface). *)
(*                                                                         *)
(* Strings are sequences of one-character strings; byte strings are        *)
(* sequences of small numbers.  Cryptographic primitives are modelled      *)
(* symbolically (a signature is the pair signer/message, an AEAD tag is    *)
(* the triple key/nonce/ciphertext, a hash is a collision-free encoding).  *)
(***************************************************************************)
EXTENDS Integers, Sequences, FiniteSets, TLC

(***************************************************************************)
(* Bounds of the model.                                                    *)
(***************************************************************************)
\* longest source file, in bytes
MaxFileLen == 2
\* config/constants.rs FILE_CHUNK_SIZE is 1 MiB; scaled down here so that a
\* file of MaxFileLen bytes goes as one chunk or, read in parts, as several
FILE_CHUNK_SIZE == 2

(***************************************************************************)
(* Program constants.                                                      *)
(***************************************************************************)
\* crypto/encryption.rs: 96-bit nonce
NONCE_LEN == 12
\* crypto/encryption.rs: 128-bit GCM tag
TAG_LEN == 16
\* args/listen.rs: the fingerprint and hash prefixes printed are [..16]
FP_DISPLAY_LEN == 16
\* args/listen.rs: the sender key must decode to 32 bytes, 64 hex characters
FP_HEX_LEN == 64
\* args/serve.rs: ack_buffer = vec![0u8; 10]
ACK_BUFFER_LEN == 10
\* crypto/key_exchange.rs: Hkdf::<Sha256>, whose HMAC block is 64 bytes
HMAC_BLOCK_LEN == 64

\* the byte values file contents are drawn from
Byte == {0, 1}

None == <<>>
Some(x) == <<x>>
IsSome(o) == o # <<>>
Unwrap(o) == o[1]

Min(a, b) == IF a < b THEN a ELSE b

(***************************************************************************)
(* Strings.                                                                *)
(***************************************************************************)
Digits == <<"0", "1", "2", "3", "4", "5", "6", "7", "8", "9">>

IsDigit(c) == \E i \in 1..10 : Digits[i] = c

DigitValue(c) == (CHOOSE i \in 1..10 : Digits[i] = c) - 1

\* Rust's Display for u64, as format!("{}", filesize) prints it
RECURSIVE ToDecimal(_)
ToDecimal(n) ==
    IF n < 10 THEN <<Digits[n + 1]>>
    ELSE ToDecimal(n \div 10) \o <<Digits[(n % 10) + 1]>>

\* the value of a non-empty string of digits
RECURSIVE FromDecimal(_)
FromDecimal(s) ==
    IF Len(s) = 1 THEN DigitValue(s[1])
    ELSE 10 * FromDecimal(SubSeq(s, 1, Len(s) - 1)) + DigitValue(s[Len(s)])

\* the canonical decimal strings: digits only, no leading zero
IsDecimal(s) ==
    /\ Len(s) >= 1
    /\ \A i \in 1..Len(s) : IsDigit(s[i])
    /\ (Len(s) > 1 => s[1] # "0")

\* the signed envelope, format!("{}|{}|{}", filename, filesize, file_hash)
MetadataMsg(filename, filesize, file_hash) ==
    filename \o <<"|">> \o ToDecimal(filesize) \o <<"|">> \o file_hash

(***************************************************************************)
(* SHA-256 of a file, hex encoded (utils/hash.rs compute_file_hash).       *)
(* Collision-free: the bytes in order, each as one hex character, padded   *)
(* with "f" to the fixed length.                                           *)
(***************************************************************************)
HASH_HEX_LEN == MaxFileLen + 1

HexChars == <<"a", "b">>

\* the digest of no bytes at all, whatever the file holds
compute_file_hash_of_nothing(data) ==
    [i \in 1..HASH_HEX_LEN |-> "f"]

compute_file_hash(data) ==
    [i \in 1..HASH_HEX_LEN |->
        IF i <= Len(data) THEN HexChars[data[i] + 1] ELSE "f"]

(***************************************************************************)
(* Ed25519 (crypto/signing.rs).  A signature names its signer and the      *)
(* exact bytes signed; hexok says whether the hex string carrying it       *)
(* decodes to 64 bytes.                                                    *)
(***************************************************************************)
sign_data(signing_key, data) ==
    [signer |-> signing_key, msg |-> data, hexok |-> TRUE]

verify_strict(verifying_key, data, signature) ==
    signature.signer = verifying_key.owner /\ signature.msg = data

\* a verification that accepts every signature
verify_signature_accept_all(verifying_key, data, signature) == "Ok"

\* Ok, or the error kind verify_signature maps the failure to
verify_signature(verifying_key, data, signature) ==
    IF verify_strict(verifying_key, data, signature) THEN "Ok" ELSE "InvalidInput"

(***************************************************************************)
(* X25519 + HKDF-SHA256 (crypto/key_exchange.rs).  A public key names the  *)
(* secret it belongs to; the Diffie-Hellman value of two key pairs is the  *)
(* unordered pair of their secrets; HKDF is injective in (ikm, salt).      *)
(***************************************************************************)
public_key_hex(secret) == [of |-> secret, hexok |-> TRUE]

parse_public_key(hex_str) ==
    IF hex_str.hexok THEN Some(hex_str.of) ELSE None

\* a key agreement whose result depends on which side computes it
compute_shared_secret_ordered(our_secret, their_public) ==
    <<our_secret, their_public>>

\* our_secret.diffie_hellman(&their_public)
compute_shared_secret(our_secret, their_public) == {our_secret, their_public}

\* the zero byte
NUL == "\\0"

\* a byte string up to its last byte that is not zero
RECURSIVE UpToLastNonZero(_)
UpToLastNonZero(bytes) ==
    IF bytes # <<>> /\ bytes[Len(bytes)] = NUL
    THEN UpToLastNonZero(SubSeq(bytes, 1, Len(bytes) - 1))
    ELSE bytes

\* HMAC takes its key (here the HKDF salt) filled up with zero bytes to the
\* block length of the hash: a block is written as its length and its bytes
\* up to the last one that is not zero.  (A key longer than the block is
\* hashed first; the session ids drawn here are shorter.)
HmacKey(salt) ==
    [block |-> HMAC_BLOCK_LEN, bytes |-> UpToLastNonZero(salt)]

\* Hkdf::<Sha256>::new(Some(session_id.as_bytes()), shared_secret), expand
\* with the fixed info string into 32 bytes
derive_aes_key(shared_secret, session_id) ==
    [ikm |-> shared_secret, salt |-> HmacKey(session_id)]

\* Some(key), or None for the CryptoError of an unparsable public key
perform_key_exchange(our_secret, their_public_hex, session_id) ==
    LET their_public == parse_public_key(their_public_hex)
    IN  IF IsSome(their_public)
        THEN Some(derive_aes_key(
                 compute_shared_secret(our_secret, Unwrap(their_public)),
                 session_id))
        ELSE None

(***************************************************************************)
(* AES-256-GCM per chunk (crypto/encryption.rs).  The blob is              *)
(* [12-byte nonce][ciphertext][16-byte tag]; len is its length in bytes.   *)
(***************************************************************************)
Seal(key, nonce, plaintext) ==
    [k |-> key, n |-> nonce, p |-> plaintext, flip |-> FALSE]

Tag(key, nonce, ct) ==
    [k |-> key, n |-> nonce, c |-> ct, flip |-> FALSE]

encrypt_chunk(aes_key, plaintext, nonce) ==
    LET ciphertext == Seal(aes_key, nonce, plaintext)
    IN  [len   |-> NONCE_LEN + (Len(plaintext) + TAG_LEN),
         nonce |-> nonce,
         ct    |-> ciphertext,
         tag   |-> Tag(aes_key, nonce, ciphertext)]

\* an open that checks the length and nothing else
AeadOpenUnauthenticated(key, nonce, blob) ==
    blob.len = NONCE_LEN + (Len(blob.ct.p) + TAG_LEN)

\* AEAD-open of ciphertext-and-tag under (key, nonce)
AeadOpen(key, nonce, blob) ==
    /\ blob.len = NONCE_LEN + (Len(blob.ct.p) + TAG_LEN)
    /\ blob.tag = Tag(key, nonce, blob.ct)
    /\ blob.ct.k = key /\ blob.ct.n = nonce /\ ~blob.ct.flip

\* no length check: every input goes to AEAD-open
decrypt_chunk_unchecked_length(aes_key, encrypted) ==
    IF AeadOpen(aes_key, encrypted.nonce, encrypted)
    THEN [ok |-> TRUE, plaintext |-> encrypted.ct.p, err |-> "-"]
    ELSE [ok |-> FALSE, plaintext |-> <<>>, err |-> "decryption failed"]

\* a length check that also turns away a blob of nonce and tag alone
decrypt_chunk_needs_payload(aes_key, encrypted) ==
    IF encrypted.len <= NONCE_LEN + TAG_LEN
    THEN [ok |-> FALSE, plaintext |-> <<>>, err |-> "too short"]
    ELSE IF AeadOpen(aes_key, encrypted.nonce, encrypted)
         THEN [ok |-> TRUE, plaintext |-> encrypted.ct.p, err |-> "-"]
         ELSE [ok |-> FALSE, plaintext |-> <<>>, err |-> "decryption failed"]

\* a decryption that passes over a frame that does not open
decrypt_chunk_skips_failure(aes_key, encrypted) ==
    IF encrypted.len >= NONCE_LEN + TAG_LEN /\ AeadOpen(aes_key, encrypted.nonce, encrypted)
    THEN [ok |-> TRUE, plaintext |-> encrypted.ct.p, err |-> "-"]
    ELSE [ok |-> TRUE, plaintext |-> <<>>, err |-> "-"]

\* [ok, plaintext, err]: the plaintext, or the CryptoError
decrypt_chunk(aes_key, encrypted) ==
    IF encrypted.len < NONCE_LEN + TAG_LEN
    THEN [ok |-> FALSE, plaintext |-> <<>>, err |-> "too short"]
    ELSE IF AeadOpen(aes_key, encrypted.nonce, encrypted)
         THEN [ok |-> TRUE, plaintext |-> encrypted.ct.p, err |-> "-"]
         ELSE [ok |-> FALSE, plaintext |-> <<>>, err |-> "decryption failed"]

(***************************************************************************)
(* std::io::Error -> Error (utils/error.rs).                               *)
(***************************************************************************)
IoErrorKinds == {"NotFound", "PermissionDenied", "Other"}

\* a conversion that makes a network error of every I/O error
FromIoErrorAlwaysNetwork(kind) == "NetworkError"

FromIoError(kind) ==
    CASE kind = "NotFound" -> "FileNotFound"
      [] kind = "PermissionDenied" -> "FileRead"
      [] OTHER -> "NetworkError"

(***************************************************************************)
(* The parties.                                                            *)
(***************************************************************************)
\* fingerprints are hex strings: whose key they encode and how long they are
AliceFp == [owner |-> "alice", len |-> FP_HEX_LEN]
MalloryFp == [owner |-> "mallory", len |-> FP_HEX_LEN]
\* the first characters of Alice's fingerprint only
ShortFp == [owner |-> "alice", len |-> FP_DISPLAY_LEN - 1]

\* the fingerprint stored for the sender's `to` contact
RecipientFp == [owner |-> "bob", len |-> FP_HEX_LEN]

\* what the sender's `file` argument names: a regular file, a directory, a
\* symbolic link to a directory, nothing
FileKinds == {"file", "dir", "link_to_dir", "missing"}

\* Path::exists and Path::is_file follow symbolic links
PathExists(file) == file # "missing"
PathIsFile(file) == file = "file"

\* the sender's identity (keys::load_keys_from) and ephemeral secret
SenderSigningKey == "alice"
SenderFp == AliceFp
SenderSecret == "sec_s"
ReceiverSecret == "sec_r"
RelaySecret == "sec_x"

\* session ids a relay may assign, as the characters of the string
SessionIds == {<<"s", "1">>, <<"s", "2">>}

Files == UNION {[1..n -> Byte] : n \in 0..MaxFileLen}

\* the source file when the sender starts: one file of each length, whose
\* neighbouring bytes differ (every other content arises by a rewrite)
InitialFiles == {d \in Files : \A i \in 1..Len(d) : d[i] = (i - 1) % 2}

\* file.file_name(): "|" is an ordinary character of a file name
SourceFileName == <<"f", "|", "1">>

\* the file names a relay may present
FileNames == {<<"f">>, SourceFileName}

\* file names another sender may sign: a parent reference, an absolute path
TraversalNames == {<<".", ".", "/", "f">>, <<"/", "f">>}

\* the download directory, as the list of its path components
DownloadDir == <<<<"h">>, <<"d">>>>

\* the components of a path string, split at "/"
RECURSIVE SplitPath(_)
SplitPath(str) ==
    IF \A i \in 1..Len(str) : str[i] # "/"
    THEN <<str>>
    ELSE LET i == CHOOSE k \in 1..Len(str) :
                    str[k] = "/" /\ \A j \in 1..(k - 1) : str[j] # "/"
         IN  <<SubSeq(str, 1, i - 1)>> \o SplitPath(SubSeq(str, i + 1, Len(str)))

\* the directory entry a list of components names, starting from base: ".."
\* goes to the parent, "." and empty components stay
RECURSIVE Resolve(_, _)
Resolve(base, components) ==
    IF components = <<>> THEN base
    ELSE LET c == Head(components)
             next == IF c = <<".", ".">>
                     THEN (IF base = <<>> THEN base ELSE SubSeq(base, 1, Len(base) - 1))
                     ELSE IF c = <<>> \/ c = <<".">> THEN base
                     ELSE Append(base, c)
         IN  Resolve(next, Tail(components))

\* download_path.join(&filename): an absolute filename replaces the
\* directory, a relative one is appended to it
OutputPath(filename) ==
    IF filename # <<>> /\ filename[1] = "/"
    THEN Resolve(<<>>, SplitPath(filename))
    ELSE Resolve(DownloadDir, SplitPath(filename))

DONE_SIGNAL == <<"D", "O", "N", "E", "\n">>
READY_SIGNAL == <<"R", "E", "A", "D", "Y", "\n">>
READY_LEN == 6

\* format!("{}:{}\n", session_id, role.as_str()), the role one token
HandshakeLineWithoutRole(session_id, role) == session_id \o <<"\n">>

HandshakeLine(session_id, role) == session_id \o <<":", role, "\n">>

\* a comparison that takes any six bytes for READY
ReadyMatchesAnything(ready_buffer) == TRUE

\* &ready_buffer != READY_SIGNAL, negated
ReadyMatches(ready_buffer) == ready_buffer = READY_SIGNAL

ERROR_SIGNATURE_FAILED == <<"E", "R", "R", "O", "R", ":", "s", "i", "g", "\n">>
ERROR_HASH_MISMATCH == <<"E", "R", "R", "O", "R", ":", "h", "a", "s", "h", "\n">>

Running == [kind |-> "running", msg |-> "-"]
Ok == [kind |-> "Ok", msg |-> "-"]
Err(kind, msg) == [kind |-> kind, msg |-> msg]

\* connect_socket from the handshake reply on: fewer than six bytes before
\* the connection closes, six other bytes, or READY
ReadyResult(reply) ==
    IF Len(reply) < READY_LEN
    THEN Err("NetworkError", "Failed to read READY signal")
    ELSE IF ~ReadyMatches(SubSeq(reply, 1, READY_LEN))
    THEN Err("NetworkError", "Expected READY signal")
    ELSE Ok

VARIABLES
    srcFile,    \* the sender's source file, as it is on disk now
    srcTouched, \* whether the source file was rewritten during the run
    snd,        \* the locals of serve::run
    rcv,        \* the locals of listen::run; did records the steps it has taken
    relay,      \* what the relay has been told over HTTP and TCP
    link,       \* the paired TCP connection: "down", "up" or "closed"
    s2r,        \* bytes forwarded to the receiver and not yet read, as items
    r2s,        \* bytes forwarded to the sender and not yet read
    wireTouched,\* whether the relay has altered a frame in flight
    outFile,    \* the receiver's output file: [exists, data, path]
    calc        \* the arguments and results of the crypto functions called
                \* on their own (the library's tests), and of the health command

vars == <<srcFile, srcTouched, snd, rcv, relay, link, s2r, r2s, wireTouched, outFile,
          calc>>

\* no function is being called on its own
Idle == [pc |-> "off"]

\* a prefix that announces the plaintext's length
LenItemOfPlaintext(n) == [kind |-> "len", n |-> n - (NONCE_LEN + TAG_LEN), blob |-> None]

LenItem(n) == [kind |-> "len", n |-> n, blob |-> None]
BlobItem(b) == [kind |-> "blob", n |-> b.len, blob |-> Some(b)]

\* OsRng.fill_bytes(&mut nonce_bytes): a value no earlier chunk of the run got
FreshNonce(total_sent) == total_sent

InitTransfer ==
    /\ srcFile \in InitialFiles
    /\ srcTouched = FALSE
    /\ \E file \in FileKinds, to \in {None, Some(RecipientFp)} :
         /\ file # "file" => srcFile = <<>>
         /\ snd = [pc |-> "start", file |-> file, to |-> to, did |-> {},
                   filename |-> SourceFileName, filesize |-> 0,
                   file_hash |-> <<>>, signature |-> None, session |-> None,
                   aes_key |-> None, total_sent |-> 0, wbuf |-> <<>>,
                   read |-> <<>>, ret |-> Running, ack |-> "-"]
    /\ \E contact \in {None, Some(AliceFp), Some(MalloryFp)} :
         \* a receiver whose contact is somebody other than the sender is run
         \* against the empty source file
         /\ contact = Some(MalloryFp) => srcFile = <<>>
         /\ rcv = [pc |-> "start", contact |-> contact, dir |-> FALSE,
                   session |-> None, aes_key |-> None, chunk_size |-> 0,
                   total_received |-> 0, fbuf |-> <<>>, frames |-> 0,
                   did |-> {}, ret |-> Running]
    /\ relay = [serve |-> None, listen |-> None,
                s_hello |-> None, r_hello |-> None, ready |-> FALSE,
                s_reply |-> <<>>, r_reply |-> <<>>,
                s_acked |-> FALSE, r_acked |-> FALSE]
    /\ link = "down"
    /\ s2r = <<>>
    /\ r2s = <<>>
    /\ wireTouched = FALSE
    /\ outFile = [exists |-> FALSE, data |-> <<>>, path |-> <<>>]

Init ==
    /\ InitTransfer
    /\ calc = Idle

(***************************************************************************)
(* The sender: args/serve.rs run, with RelayClient::serve and              *)
(* connect_socket of server/relay.rs.                                      *)
(***************************************************************************)
\* run returns: its locals are dropped (what it read from the file is kept
\* for the record)
SReturn(result) ==
    [snd EXCEPT !.pc = "returned", !.ret = result, !.filename = <<>>,
                !.filesize = 0, !.file_hash = <<>>, !.signature = None,
                !.session = None, !.aes_key = None, !.total_sent = 0,
                !.wbuf = <<>>]

\* listen::run returns: its locals are dropped
RReturn(result) ==
    [rcv EXCEPT !.pc = "returned", !.ret = result, !.session = None,
                !.aes_key = None, !.chunk_size = 0, !.total_received = 0,
                !.fbuf = <<>>]

\* dropping the session closes the socket
Drop(l) == IF l = "up" THEN "closed" ELSE l

\* a validation that asks only whether the path exists
validate_file_path_exists_only(file) ==
    IF ~PathExists(file) THEN Err("FileNotFound", "path") ELSE Ok

\* hash::validate_file_path
validate_file_path(file) ==
    IF ~PathExists(file)
    THEN Err("FileNotFound", "path")
    ELSE IF ~PathIsFile(file)
    THEN Err("InvalidInput", "is not a file")
    ELSE Ok

\* a lookup that finds every name
FindRecipientAnyone(to) == Ok

\* contact_list.get(&to).ok_or_else(|| InvalidInput("Contact ... not found"))
FindRecipient(to) ==
    IF IsSome(to) THEN Ok ELSE Err("InvalidInput", "Contact not found")

\* validate_file_path, file_name(), std::fs::metadata(&file).len(),
\* load_config, load_keys_from, load_contacts, contact_list.get(&to)
S_Stat ==
    /\ snd.pc = "start"
    /\ IF validate_file_path(snd.file) # Ok
       THEN snd' = SReturn(validate_file_path(snd.file))
       ELSE IF FindRecipient(snd.to) # Ok
       THEN snd' = [SReturn(FindRecipient(snd.to))
                      EXCEPT !.did = {"validated", "config", "keys", "contacts"}]
       ELSE snd' = [snd EXCEPT !.pc = "hash", !.filesize = Len(srcFile),
                               !.did = {"validated", "config", "keys", "contacts"}]
    /\ UNCHANGED <<calc, srcFile, srcTouched, rcv, relay, link, s2r, r2s, wireTouched, outFile>>

\* hash::compute_file_hash(&file)
S_Hash ==
    /\ snd.pc = "hash"
    /\ snd' = [snd EXCEPT !.pc = "sign", !.file_hash = compute_file_hash(srcFile),
                          !.did = snd.did \cup {"hashed"}]
    /\ UNCHANGED <<calc, srcFile, srcTouched, rcv, relay, link, s2r, r2s, wireTouched, outFile>>

\* metadata_msg, signing::sign_data, EphemeralKeyPair::generate
S_Sign ==
    /\ snd.pc = "sign"
    /\ snd' = [snd EXCEPT
                 !.pc = "serve",
                 !.did = snd.did \cup {"signed", "ephemeral"},
                 !.signature = Some(sign_data(SenderSigningKey,
                     MetadataMsg(snd.filename, snd.filesize, snd.file_hash)))]
    /\ UNCHANGED <<calc, srcFile, srcTouched, rcv, relay, link, s2r, r2s, wireTouched, outFile>>

\* RelayClient::serve: POST /api/relay/serve
S_ServePost ==
    /\ snd.pc = "serve"
    /\ snd' = [snd EXCEPT !.pc = "serve_wait", !.did = snd.did \cup {"posted"}]
    /\ relay' = [relay EXCEPT !.serve = Some(
                     [senderFp |-> SenderFp,
                      filename |-> snd.filename,
                      fileSize |-> snd.filesize,
                      signature |-> Unwrap(snd.signature),
                      fileHash |-> snd.file_hash,
                      senderEphemeralKey |-> public_key_hex(SenderSecret)])]
    /\ UNCHANGED <<calc, srcFile, srcTouched, rcv, link, s2r, r2s, wireTouched, outFile>>

\* connect_socket: write "{session_id}:sender\n"
S_Hello ==
    /\ snd.pc = "hello"
    /\ snd' = [snd EXCEPT !.pc = "wait_ready"]
    /\ relay' = [relay EXCEPT !.s_hello =
                    Some(HandshakeLine(Unwrap(snd.session).session_id, "sender"))]
    /\ UNCHANGED <<calc, srcFile, srcTouched, rcv, link, s2r, r2s, wireTouched, outFile>>

\* a handshake read through a buffered reader that is then dropped: what it
\* had taken in beyond the six bytes is gone
AfterHandshakeBuffered(stream) == <<>>

\* what is left on the connection for the session's buf_reader after
\* read_exact on the raw socket has taken the six bytes
AfterHandshake(stream) == SubSeq(stream, READY_LEN + 1, Len(stream))

\* connect_socket: six bytes read and compared with READY, then ACK written,
\* sleep; serve returns the session.  The connection brings the relay's
\* reply and then what the relay forwards.
S_Ack ==
    /\ snd.pc = "wait_ready"
    /\ relay.s_reply # <<>>
    /\ IF ReadyResult(relay.s_reply \o r2s) # Ok
       THEN /\ snd' = SReturn(ReadyResult(relay.s_reply \o r2s))
            /\ UNCHANGED <<relay, r2s>>
       ELSE /\ snd' = [snd EXCEPT !.pc = "derive"]
            /\ relay' = [relay EXCEPT !.s_acked = TRUE]
            /\ r2s' = AfterHandshake(relay.s_reply \o r2s)
    /\ UNCHANGED <<calc, srcFile, srcTouched, rcv, link, s2r, wireTouched, outFile>>

\* receiver_ephemeral_key.ok_or(SessionError), perform_key_exchange, File::open
S_DeriveKey ==
    /\ snd.pc = "derive"
    /\ LET eph == Unwrap(snd.session).receiver_ephemeral_key
           key == IF IsSome(eph)
                  THEN perform_key_exchange(SenderSecret, Unwrap(eph),
                                            Unwrap(snd.session).session_id)
                  ELSE None
       IN  IF ~IsSome(eph)
           THEN /\ snd' = SReturn(Err("SessionError", "Receiver key not found"))
                /\ link' = Drop(link)
           ELSE IF ~IsSome(key)
           THEN /\ snd' = SReturn(Err("CryptoError", "Invalid hex public key"))
                /\ link' = Drop(link)
           ELSE /\ snd' = [snd EXCEPT !.pc = "stream", !.aes_key = key]
                /\ link' = link
    /\ UNCHANGED <<calc, srcFile, srcTouched, rcv, relay, s2r, r2s, wireTouched, outFile>>

\* a loop that does not stop at a read of nothing
ReadSizesWithEmpty(remaining) == 0..Min(FILE_CHUNK_SIZE, remaining)

\* what buf_reader.read(&mut buffer) may return inside the loop: up to the
\* buffer's FILE_CHUNK_SIZE bytes of what the file still has; 0 leaves the loop
ReadSizes(remaining) == 1..Min(FILE_CHUNK_SIZE, remaining)

\* one turn of the streaming loop: buf_reader.read (n bytes from the current
\* offset, 0 at end of file), encrypt_chunk, write_all of the 4-byte length,
\* write_all of the blob.  The socket's BufWriter holds what is written until
\* it cannot take more and is written out (spill): before the length, or
\* between the length and the blob.
S_SendChunk ==
    /\ snd.pc = "stream"
    /\ snd.total_sent < Len(srcFile)
    /\ \E n \in ReadSizes(Len(srcFile) - snd.total_sent),
          spill \in {"none", "before_len", "before_blob"} :
         LET chunk == SubSeq(srcFile, snd.total_sent + 1, snd.total_sent + n)
             nonce == FreshNonce(snd.total_sent)
             encrypted_chunk == encrypt_chunk(Unwrap(snd.aes_key), chunk, nonce)
             chunk_size == encrypted_chunk.len
             frame == <<LenItem(chunk_size), BlobItem(encrypted_chunk)>>
         IN  IF spill # "none" /\ link # "up"
             THEN /\ snd' = [SReturn(Err("NetworkError", "Failed to write all to socket"))
                               EXCEPT !.read = snd.read \o chunk]
                  /\ link' = Drop(link)
                  /\ s2r' = s2r
             ELSE /\ snd' = [snd EXCEPT
                              !.total_sent = snd.total_sent + n,
                              !.read = snd.read \o chunk,
                              !.wbuf = CASE spill = "none" -> snd.wbuf \o frame
                                         [] spill = "before_len" -> frame
                                         [] OTHER -> <<frame[2]>>]
                  /\ s2r' = CASE spill = "none" -> s2r
                              [] spill = "before_len" -> s2r \o snd.wbuf
                              [] OTHER -> s2r \o snd.wbuf \o <<frame[1]>>
                  /\ link' = link
    /\ UNCHANGED <<calc, srcFile, srcTouched, rcv, relay, r2s, wireTouched, outFile>>

\* buf_reader.read returns 0: leave the loop
S_EndOfFile ==
    /\ snd.pc = "stream"
    /\ snd.total_sent >= Len(srcFile)
    /\ snd' = [snd EXCEPT !.pc = "flush"]
    /\ UNCHANGED <<calc, srcFile, srcTouched, rcv, relay, link, s2r, r2s, wireTouched, outFile>>

\* session.flush().await?: what the BufWriter still holds is written to the
\* socket; with nothing held there is nothing to write and nothing to fail
S_Flush ==
    /\ snd.pc = "flush"
    /\ IF link = "up" \/ snd.wbuf = <<>>
       THEN /\ s2r' = s2r \o snd.wbuf
            /\ snd' = [snd EXCEPT !.pc = "ack", !.wbuf = <<>>]
            /\ link' = link
       ELSE /\ snd' = SReturn(Err("NetworkError", "Failed to flush socket"))
            /\ link' = Drop(link)
            /\ s2r' = s2r
    /\ UNCHANGED <<calc, srcFile, srcTouched, rcv, relay, r2s, wireTouched, outFile>>

\* any reply at all taken for the confirmation
AckOutcomeAnyReply(got) ==
    IF Len(got) > 0 THEN "confirmed" ELSE "unexpected"

\* what the single read of the acknowledgement wait makes of the n bytes it got
AckOutcome(got) ==
    IF Len(got) > 0 /\ got = DONE_SIGNAL THEN "confirmed" ELSE "unexpected"

\* session.read(&mut ack_buffer): one read of up to 10 bytes returns some
\* non-empty prefix of what has arrived
S_AwaitAck ==
    /\ snd.pc = "ack"
    /\ r2s # <<>>
    /\ \E n \in 1..Min(ACK_BUFFER_LEN, Len(r2s)) :
         /\ snd' = [SReturn(Ok) EXCEPT !.ack = AckOutcome(SubSeq(r2s, 1, n))]
         /\ r2s' = SubSeq(r2s, n + 1, Len(r2s))
    /\ link' = Drop(link)
    /\ UNCHANGED <<calc, srcFile, srcTouched, rcv, relay, s2r, wireTouched, outFile>>

\* the connection ended with nothing to read: Ok(0), or a read error
S_AwaitAckClosed ==
    /\ snd.pc = "ack"
    /\ r2s = <<>>
    /\ link = "closed"
    /\ \E outcome \in {"unexpected", "failed"} :
         snd' = [SReturn(Ok) EXCEPT !.ack = outcome]
    /\ UNCHANGED <<calc, srcFile, srcTouched, rcv, relay, link, s2r, r2s, wireTouched, outFile>>

(***************************************************************************)
(* The relay: a black box that answers the two HTTP calls, pairs the two   *)
(* TCP connections and forwards bytes.  It is not trusted: it may present  *)
(* other metadata, keys and session ids, alter a frame in flight and close *)
(* the connection.                                                         *)
(***************************************************************************)
RelayKeys == {[of |-> RelaySecret, hexok |-> TRUE], [of |-> RelaySecret, hexok |-> FALSE]}

\* HTTP status codes a relay may answer with
HttpStatuses == {200, 201, 302, 404, 503}

\* a status-3xx answer taken for success
is_success_below_400(status) == status >= 200 /\ status <= 399

\* reqwest StatusCode::is_success
is_success(status) == status >= 200 /\ status <= 299

\* what the relay's HTTP endpoint may do besides answering with a body of
\* the expected shape: not answer at all, or answer with a body that does
\* not parse
HttpFailures ==
    {[kind |-> "unreachable", status |-> 0]}
    \cup {[kind |-> "malformed", status |-> st] : st \in HttpStatuses}

\* Err(NetworkError(format!("..., Status: {}", status)))
StatusError(status) ==
    [kind |-> "NetworkError", msg |-> "Status", status |-> status]

\* a serve response {status, sessionId, socketPort, message,
\* receiverEphemeralKey?} under HTTP status st
ServeResponse(st, eph) ==
    [kind |-> "json", status |-> st, session_id |-> <<"s", "1">>,
     receiver_ephemeral_key |-> eph]

\* the answers an honest relay gives to the serve request: the receiver's
\* ephemeral key if the receiver has arrived, no key if it has not
HonestServeResponses ==
    IF IsSome(relay.listen)
    THEN {ServeResponse(200, Some(Unwrap(relay.listen).receiverEphemeralKey))}
    ELSE {ServeResponse(200, None)}

\* every answer to the serve request
ServeResponses ==
    HttpFailures
    \cup {ServeResponse(st, eph) :
             st \in HttpStatuses,
             eph \in {None} \cup {Some(k) : k \in RelayKeys}
                    \cup (IF IsSome(relay.listen)
                          THEN {Some(Unwrap(relay.listen).receiverEphemeralKey)}
                          ELSE {})}

\* RelayClient::health_check: GET /actuator/health
health_check(response) ==
    IF response.kind = "unreachable"
    THEN Err("NetworkError", "Failed to call health API")
    ELSE IF ~is_success(response.status)
    THEN StatusError(response.status)
    ELSE Ok

\* RelayClient::serve up to connect_socket: the error it returns, or Ok
ServeHttpResult(response) ==
    IF response.kind = "unreachable"
    THEN Err("NetworkError", "Failed to call serve API")
    ELSE IF ~is_success(response.status)
    THEN StatusError(response.status)
    ELSE IF response.kind = "malformed"
    THEN Err("SessionError", "Failed to parse session response")
    ELSE Ok

\* POST /api/relay/serve answered
ServeReply(responses) ==
    /\ snd.pc = "serve_wait"
    /\ \E response \in responses :
         IF ServeHttpResult(response) = Ok
         THEN snd' = [snd EXCEPT
                        !.pc = "hello",
                        !.session = Some(
                            [session_id |-> response.session_id,
                             receiver_ephemeral_key |->
                                 response.receiver_ephemeral_key])]
         ELSE snd' = SReturn(ServeHttpResult(response))
    /\ UNCHANGED <<calc, srcFile, srcTouched, rcv, relay, link, s2r, r2s, wireTouched, outFile>>

Relay_ServeReply == ServeReply(ServeResponses)

\* the positions of "|" in a string
Bars(str) == {i \in 1..Len(str) : str[i] = "|"}

\* every (filename, fileSize, fileHash) whose envelope is the byte string env
SameEnvelope(env) ==
    {[filename |-> SubSeq(env, 1, i - 1),
      fileSize |-> FromDecimal(SubSeq(env, i + 1, j - 1)),
      fileHash |-> SubSeq(env, j + 1, Len(env))] :
        <<i, j>> \in {p \in Bars(env) \X Bars(env) :
                        p[1] < p[2] /\ IsDecimal(SubSeq(env, p[1] + 1, p[2] - 1))}}

\* the metadata the relay may present for a serve request: the request's own,
\* one with another file size, file name or hash, or one that reads the
\* signed bytes differently
PresentedMetadata(req) ==
    LET own == [filename |-> req.filename, fileSize |-> req.fileSize,
                fileHash |-> req.fileHash]
    IN  {own}
        \cup {[own EXCEPT !.fileSize = z] : z \in 0..MaxFileLen}
        \cup {[own EXCEPT !.filename = name] : name \in FileNames}
        \cup {[own EXCEPT !.fileHash = compute_file_hash(d)] : d \in Files}
        \cup SameEnvelope(MetadataMsg(req.filename, req.fileSize, req.fileHash))

ListenResponse(sid, fp, meta, sig, eph) ==
    [kind |-> "json",
     status |-> 200,
     missing |-> None,
     session_id |-> sid,
     filename |-> meta.filename,
     file_size |-> meta.fileSize,
     signature |-> sig,
     sender_fp |-> fp,
     file_hash |-> meta.fileHash,
     sender_ephemeral_key |-> eph]

\* the listen responses of a relay that need not be honest: the request
\* echoed; the request with one of fingerprint, ephemeral key, session id or
\* signature replaced; other metadata under the sender's signature; or
\* Mallory presented as the sender, with her signature over the metadata or
\* over metadata naming a file outside the download directory
ListenResponses(req) ==
    LET own == [filename |-> req.filename, fileSize |-> req.fileSize,
                fileHash |-> req.fileHash]
        honest(sid, fp, sig, eph) == ListenResponse(sid, fp, own, sig, eph)
    IN  {honest(<<"s", "1">>, req.senderFp, req.signature, req.senderEphemeralKey)}
        \cup {honest(<<"s", "1">>, fp, req.signature, req.senderEphemeralKey) :
                 fp \in {MalloryFp, ShortFp}}
        \cup {honest(<<"s", "1">>, req.senderFp, req.signature, eph) : eph \in RelayKeys}
        \cup {honest(sid, req.senderFp, req.signature, req.senderEphemeralKey) :
                 sid \in SessionIds}
        \cup {honest(<<"s", "1">>, req.senderFp, [req.signature EXCEPT !.hexok = FALSE],
                     req.senderEphemeralKey)}
        \cup {ListenResponse(<<"s", "1">>, req.senderFp, meta, req.signature,
                             req.senderEphemeralKey) :
                 meta \in PresentedMetadata(req)}
        \cup {honest(<<"s", "1">>, MalloryFp,
                     sign_data("mallory",
                         MetadataMsg(own.filename, own.fileSize, own.fileHash)),
                     req.senderEphemeralKey)}
        \cup {ListenResponse(<<"s", "1">>, MalloryFp, [own EXCEPT !.filename = name],
                     sign_data("mallory",
                         MetadataMsg(name, own.fileSize, own.fileHash)),
                     [of |-> RelaySecret, hexok |-> TRUE]) :
                 name \in TraversalNames}

\* the fields of a listen response that RelayClient::listen looks for
ListenFields ==
    {"sessionId", "senderFp", "filename", "fileSize", "signature", "fileHash",
     "socketPort", "senderEphemeralKey", "receiverEphemeralKey"}

\* the request echoed faithfully
HonestListenResponse(req) ==
    ListenResponse(<<"s", "1">>, req.senderFp,
                   [filename |-> req.filename, fileSize |-> req.fileSize,
                    fileHash |-> req.fileHash],
                   req.signature, req.senderEphemeralKey)

\* every answer to the listen request: those above, the HTTP failures, the
\* faithful response under each status, and the faithful response with one
\* field left out
ListenReplies(req) ==
    ListenResponses(req)
    \cup HttpFailures
    \cup {[HonestListenResponse(req) EXCEPT !.status = st] : st \in HttpStatuses}
    \cup {[HonestListenResponse(req) EXCEPT !.missing = Some(field)] :
             field \in ListenFields}

\* session.<field>.ok_or_else(..)?: the error for a field that is absent
\* (socket_port is never looked at)
MissingFieldResult(field) ==
    CASE field \in {"sessionId", "senderFp", "filename", "fileSize",
                    "signature", "fileHash"} ->
             Err("SessionError", "Server did not return field")
      [] field \in {"senderEphemeralKey", "receiverEphemeralKey"} ->
             Err("NetworkError", "Server did not return ephemeral key")
      [] OTHER -> Ok

\* RelayClient::listen up to connect_socket: the error it returns, or Ok
ListenHttpResult(response) ==
    IF response.kind = "unreachable"
    THEN Err("NetworkError", "Failed to call listen API")
    ELSE IF ~is_success(response.status)
    THEN StatusError(response.status)
    ELSE IF response.kind = "malformed"
    THEN Err("NetworkError", "Failed to parse session response")
    ELSE IF IsSome(response.missing)
    THEN MissingFieldResult(Unwrap(response.missing))
    ELSE Ok

\* POST /api/relay/listen answered once a sender has announced a transfer
ListenReply(responses) ==
    /\ rcv.pc = "listen_wait"
    /\ IsSome(relay.serve)
    /\ \E response \in responses :
         IF ListenHttpResult(response) = Ok
         THEN rcv' = [rcv EXCEPT
                        !.pc = "hello",
                        !.session = Some(
                            [session_id |-> response.session_id,
                             filename |-> response.filename,
                             file_size |-> response.file_size,
                             signature |-> response.signature,
                             sender_fp |-> response.sender_fp,
                             file_hash |-> response.file_hash,
                             sender_ephemeral_key |->
                                 response.sender_ephemeral_key])]
         ELSE rcv' = [RReturn(ListenHttpResult(response))
                        EXCEPT !.did = rcv.did \cup
                            (IF response.kind = "json" /\ is_success(response.status)
                             THEN {"field_missing"} ELSE {})]
    /\ UNCHANGED <<calc, srcFile, srcTouched, snd, relay, link, s2r, r2s, wireTouched, outFile>>

Relay_ListenReply == ListenReply(ListenReplies(Unwrap(relay.serve)))

\* both connections have sent their handshake line: READY to both
Relay_Ready ==
    /\ ~relay.ready
    /\ IsSome(relay.s_hello)
    /\ IsSome(relay.r_hello)
    /\ relay.s_reply = <<>> /\ relay.r_reply = <<>>
    /\ relay' = [relay EXCEPT !.ready = TRUE,
                              !.s_reply = READY_SIGNAL, !.r_reply = READY_SIGNAL]
    /\ link' = "up"
    /\ UNCHANGED <<calc, srcFile, srcTouched, snd, rcv, s2r, r2s, wireTouched, outFile>>

\* the relay answers one connection's handshake without pairing it: with six
\* other bytes, or with fewer than six and then the close
Relay_Refuse ==
    /\ ~relay.ready
    /\ \E reply \in {<<"E", "R", "R", "O", "R", "\n">>, <<"R", "E", "A">>} :
         \/ /\ IsSome(relay.s_hello) /\ relay.s_reply = <<>>
            /\ relay' = [relay EXCEPT !.s_reply = reply]
         \/ /\ IsSome(relay.r_hello) /\ relay.r_reply = <<>>
            /\ relay' = [relay EXCEPT !.r_reply = reply]
    /\ UNCHANGED <<calc, srcFile, srcTouched, snd, rcv, link, s2r, r2s, wireTouched, outFile>>

\* a frame altered: a bit of the nonce, the ciphertext or the tag flipped, or
\* the frame replaced by one too short to hold nonce and tag
Corrupted(blob, how) ==
    CASE how = "nonce" -> [blob EXCEPT !.nonce = blob.nonce + 1]
      [] how = "ct" -> [blob EXCEPT !.ct.flip = TRUE]
      [] how = "tag" -> [blob EXCEPT !.tag.flip = TRUE]
      [] OTHER -> [blob EXCEPT !.len = NONCE_LEN + TAG_LEN - 1]

\* the relay alters the next frame it delivers
Relay_Corrupt ==
    /\ ~wireTouched
    /\ \E i \in 1..Len(s2r), how \in {"nonce", "ct", "tag", "short"} :
         /\ s2r[i].kind = "blob"
         /\ \A k \in 1..(i - 1) : s2r[k].kind # "blob"
         /\ how = "short" => (i > 1 /\ s2r[i - 1].kind = "len")
         /\ LET blob == Corrupted(Unwrap(s2r[i].blob), how)
            IN  s2r' = [k \in 1..Len(s2r) |->
                          IF k = i THEN BlobItem(blob)
                          ELSE IF k = i - 1 /\ how = "short" THEN LenItem(blob.len)
                          ELSE s2r[k]]
    /\ wireTouched' = TRUE
    /\ UNCHANGED <<calc, srcFile, srcTouched, snd, rcv, relay, link, r2s, outFile>>

\* the frames are not numbered: the relay delivers the next two in the other
\* order, or the next one twice
Relay_Reorder ==
    /\ ~wireTouched
    /\ Len(s2r) >= 2
    /\ s2r[1].kind = "len"
    /\ s2r[2].kind = "blob"
    /\ \E how \in {"swap", "twice"} :
         IF how = "swap"
         THEN /\ Len(s2r) >= 4
              /\ s2r[4].kind = "blob"
              /\ s2r' = <<s2r[3], s2r[4], s2r[1], s2r[2]>> \o SubSeq(s2r, 5, Len(s2r))
         ELSE s2r' = <<s2r[1], s2r[2]>> \o s2r
    /\ wireTouched' = TRUE
    /\ UNCHANGED <<calc, srcFile, srcTouched, snd, rcv, relay, link, r2s, outFile>>

\* the relay tears the pairing down; what it has forwarded can still be read
Relay_Close ==
    /\ link = "up"
    /\ link' = "closed"
    /\ UNCHANGED <<calc, srcFile, srcTouched, snd, rcv, relay, s2r, r2s, wireTouched, outFile>>

\* a file after one edit: its last byte dropped, a byte appended, or one
\* byte changed
Rewrites(file) ==
    {d \in Files :
        \/ Len(d) + 1 = Len(file) /\ d = SubSeq(file, 1, Len(d))
        \/ Len(d) = Len(file) + 1 /\ file = SubSeq(d, 1, Len(file))
        \/ Len(d) = Len(file)
           /\ Cardinality({i \in 1..Len(d) : d[i] # file[i]}) = 1}

\* the source file is rewritten while the sender runs: after its size was
\* taken and before it is hashed, or after it was hashed and before it is
\* opened for streaming
Env_TouchFile ==
    /\ ~srcTouched
    /\ snd.pc \in {"hash", "derive"}
    /\ srcFile' \in Rewrites(srcFile)
    /\ srcTouched' = TRUE
    /\ UNCHANGED <<calc, snd, rcv, relay, link, s2r, r2s, wireTouched, outFile>>

(***************************************************************************)
(* The receiver: args/listen.rs run, with RelayClient::listen and          *)
(* connect_socket of server/relay.rs.                                      *)
(***************************************************************************)
Session == Unwrap(rcv.session)

\* the file as it is, had remove_file not been called
NotRemoved == outFile

\* tokio::fs::remove_file(&file_path)
Removed == [exists |-> FALSE, data |-> <<>>, path |-> <<>>]

\* nothing written to the peer
NotSignalled(signal) == r2s

\* let _ = session.write_all(signal); let _ = session.flush(): the bytes
\* reach the peer if the connection is up, and failure is ignored
Signalled(signal) == IF link = "up" THEN r2s \o signal ELSE r2s

\* load_config, load_keys_from, create_dir_all(&download_path),
\* load_contacts, contact_list.get(&from)
R_Start ==
    /\ rcv.pc = "start"
    /\ IF IsSome(rcv.contact)
       THEN rcv' = [rcv EXCEPT !.pc = "listen", !.dir = TRUE]
       ELSE rcv' = [RReturn(Err("InvalidInput", "Contact not found")) EXCEPT !.dir = TRUE]
    /\ UNCHANGED <<calc, srcFile, srcTouched, snd, relay, link, s2r, r2s, wireTouched, outFile>>

\* EphemeralKeyPair::generate; RelayClient::listen: POST /api/relay/listen
R_ListenPost ==
    /\ rcv.pc = "listen"
    /\ rcv' = [rcv EXCEPT !.pc = "listen_wait"]
    /\ relay' = [relay EXCEPT !.listen = Some(
                     [receiverEphemeralKey |-> public_key_hex(ReceiverSecret)])]
    /\ UNCHANGED <<calc, srcFile, srcTouched, snd, link, s2r, r2s, wireTouched, outFile>>

\* connect_socket: write "{session_id}:receiver\n"
R_Hello ==
    /\ rcv.pc = "hello"
    /\ rcv' = [rcv EXCEPT !.pc = "wait_ready"]
    /\ relay' = [relay EXCEPT !.r_hello =
                    Some(HandshakeLine(Unwrap(rcv.session).session_id, "receiver"))]
    /\ UNCHANGED <<calc, srcFile, srcTouched, snd, link, s2r, r2s, wireTouched, outFile>>

\* connect_socket: six bytes read and compared with READY, then ACK written,
\* sleep; listen returns the session.  The connection brings the relay's
\* reply and then what the relay forwards.
R_Ack ==
    /\ rcv.pc = "wait_ready"
    /\ relay.r_reply # <<>>
    /\ IF ReadyResult(relay.r_reply \o s2r) # Ok
       THEN /\ rcv' = RReturn(ReadyResult(relay.r_reply \o s2r))
            /\ UNCHANGED <<relay, s2r>>
       ELSE /\ rcv' = [rcv EXCEPT !.pc = "check_fp"]
            /\ relay' = [relay EXCEPT !.r_acked = TRUE]
            /\ s2r' = AfterHandshake(relay.r_reply \o s2r)
    /\ UNCHANGED <<calc, srcFile, srcTouched, snd, link, r2s, wireTouched, outFile>>

\* &s[..16] panics on a string shorter than 16 bytes
SlicePanics(fp) == fp.len < FP_DISPLAY_LEN

\* a comparison that lets every sender through
FingerprintMatchesAnyone(expected, sender_fp) == TRUE

\* expected_sender.public_key != sender_fp, negated
FingerprintMatches(expected, sender_fp) == expected = sender_fp

FingerprintMismatchResult(expected, sender_fp) ==
    IF SlicePanics(expected) \/ SlicePanics(sender_fp)
    THEN Err("panic", "byte index 16 is out of bounds")
    ELSE Err("InvalidInput", "Sender fingerprint mismatch")

\* if expected_sender.public_key != sender_fp { return Err(InvalidInput(format!(
\*     "...", &expected_sender.public_key[..16], &sender_fp[..16]))) }
R_CheckFingerprint ==
    /\ rcv.pc = "check_fp"
    /\ LET expected == Unwrap(rcv.contact)
           sender_fp == Session.sender_fp
       IN  IF ~FingerprintMatches(expected, sender_fp)
           THEN /\ rcv' = [RReturn(FingerprintMismatchResult(expected, sender_fp))
                             EXCEPT !.did = rcv.did \cup {"fp_mismatch"}]
                /\ link' = Drop(link)
           ELSE /\ rcv' = [rcv EXCEPT !.pc = "verify",
                                      !.did = rcv.did \cup {"fp_ok"}]
                /\ link' = link
    /\ UNCHANGED <<calc, srcFile, srcTouched, snd, relay, s2r, r2s, wireTouched, outFile>>

\* the error run returns when verify_signature fails
SignatureFailureKind == "InvalidInput"

\* hex::decode and VerifyingKey::from_bytes of the sender key, hex::decode and
\* Signature::from_bytes of the signature, signing::verify_signature; on
\* failure ERROR:signature_failed is sent and the run fails
R_VerifySignature ==
    /\ rcv.pc = "verify"
    /\ LET sender_fp == Session.sender_fp
           metadata_msg == MetadataMsg(Session.filename, Session.file_size,
                                       Session.file_hash)
       IN  IF sender_fp.len # FP_HEX_LEN
           THEN /\ rcv' = RReturn(Err("InvalidInput", "Invalid key length"))
                /\ r2s' = r2s
           ELSE IF ~Session.signature.hexok
           THEN /\ rcv' = RReturn(Err("InvalidInput", "Invalid signature hex"))
                /\ r2s' = r2s
           ELSE IF verify_signature(sender_fp, metadata_msg, Session.signature) # "Ok"
           THEN /\ rcv' = [RReturn(Err(SignatureFailureKind, "Signature verification failed"))
                             EXCEPT !.did = rcv.did \cup {"sig_failed"}]
                /\ r2s' = Signalled(ERROR_SIGNATURE_FAILED)
           ELSE /\ rcv' = [rcv EXCEPT !.pc = "derive",
                                      !.did = rcv.did \cup {"sig_ok"}]
                /\ r2s' = r2s
    /\ link' = IF rcv'.pc = "returned" THEN Drop(link) ELSE link
    /\ UNCHANGED <<calc, srcFile, srcTouched, snd, relay, s2r, wireTouched, outFile>>

\* key_exchange::perform_key_exchange(secret, sender_ephemeral_hex, session_id)?
R_DeriveKey ==
    /\ rcv.pc = "derive"
    /\ LET key == perform_key_exchange(ReceiverSecret, Session.sender_ephemeral_key,
                                       Session.session_id)
       IN  IF IsSome(key)
           THEN /\ rcv' = [rcv EXCEPT !.pc = "create", !.aes_key = key,
                                      !.did = rcv.did \cup {"key"}]
                /\ link' = link
           ELSE /\ rcv' = RReturn(Err("CryptoError", "Invalid hex public key"))
                /\ link' = Drop(link)
    /\ UNCHANGED <<calc, srcFile, srcTouched, snd, relay, s2r, r2s, wireTouched, outFile>>

\* File::create(download_path.join(&filename)).await?
R_CreateFile ==
    /\ rcv.pc = "create"
    /\ \E io \in {"ok"} \cup IoErrorKinds :
         IF io = "ok"
         THEN /\ rcv' = [rcv EXCEPT !.pc = "loop",
                                    !.did = rcv.did \cup {"created"}]
              /\ outFile' = [exists |-> TRUE, data |-> <<>>,
                             path |-> OutputPath(Session.filename)]
              /\ link' = link
         ELSE /\ rcv' = RReturn(Err(FromIoError(io), "create"))
              /\ outFile' = outFile
              /\ link' = Drop(link)
    /\ UNCHANGED <<calc, srcFile, srcTouched, snd, relay, s2r, r2s, wireTouched>>

\* while total_received < filesize: read_exact of the 4-byte size prefix
R_ReadPrefix ==
    /\ rcv.pc = "loop"
    /\ rcv.total_received < Session.file_size
    /\ s2r # <<>>
    /\ Head(s2r).kind = "len"
    /\ rcv' = [rcv EXCEPT !.pc = "blob", !.chunk_size = Head(s2r).n]
    /\ s2r' = Tail(s2r)
    /\ UNCHANGED <<calc, srcFile, srcTouched, snd, relay, link, r2s, wireTouched, outFile>>

\* read_exact fails (the connection ended): drop(file_writer), remove_file,
\* InvalidInput("Transfer interrupted - ...")
ReadInterrupted ==
    /\ s2r = <<>>
    /\ link = "closed"
    /\ rcv' = RReturn(Err("InvalidInput", "Transfer interrupted"))
    /\ outFile' = Removed
    /\ UNCHANGED <<calc, srcFile, srcTouched, snd, relay, link, s2r, r2s, wireTouched>>

R_ReadPrefixInterrupted ==
    /\ rcv.pc = "loop"
    /\ rcv.total_received < Session.file_size
    /\ ReadInterrupted

R_ReadChunkInterrupted ==
    /\ rcv.pc = "blob"
    /\ ReadInterrupted

\* what is left on disk when the run returns an error from inside the loop
\* or from the flush, by "?" alone
LeftBehind(file) == file

\* read_exact of chunk_size bytes, decrypt_chunk(...)?,
\* file_writer.write_all(&plaintext).await?, total_received += len
R_ReadChunk ==
    /\ rcv.pc = "blob"
    /\ s2r # <<>>
    /\ Head(s2r).kind = "blob"
    /\ s2r' = Tail(s2r)
    /\ LET opened == decrypt_chunk(Unwrap(rcv.aes_key), Unwrap(Head(s2r).blob))
       IN  IF ~opened.ok
           THEN /\ rcv' = [RReturn(Err("CryptoError", opened.err))
                             EXCEPT !.frames = rcv.frames + 1,
                                    !.did = rcv.did \cup {"aead_failed"}]
                /\ outFile' = LeftBehind(outFile)
           ELSE \E io \in {"ok", "spill"} \cup IoErrorKinds :
                  IF io \in IoErrorKinds
                  THEN /\ rcv' = [RReturn(Err(FromIoError(io), "write"))
                                    EXCEPT !.frames = rcv.frames + 1]
                       /\ outFile' = LeftBehind(outFile)
                  ELSE /\ rcv' = [rcv EXCEPT
                                    !.pc = "loop",
                                    !.frames = rcv.frames + 1,
                                    !.total_received = rcv.total_received
                                                       + Len(opened.plaintext),
                                    !.fbuf = IF io = "spill" THEN opened.plaintext
                                             ELSE rcv.fbuf \o opened.plaintext]
                       /\ outFile' = IF io = "spill"
                                     THEN [outFile EXCEPT !.data = outFile.data \o rcv.fbuf]
                                     ELSE outFile
    /\ link' = IF rcv'.pc = "returned" THEN Drop(link) ELSE link
    /\ UNCHANGED <<calc, srcFile, srcTouched, snd, relay, r2s, wireTouched>>

\* the loop ends (total_received >= filesize); file_writer.flush().await?
R_Flush ==
    /\ rcv.pc = "loop"
    /\ rcv.total_received >= Session.file_size
    /\ \E io \in {"ok"} \cup IoErrorKinds :
         IF io = "ok"
         THEN /\ rcv' = [rcv EXCEPT !.pc = "hash", !.fbuf = <<>>]
              /\ outFile' = [outFile EXCEPT !.data = outFile.data \o rcv.fbuf]
              /\ link' = link
         ELSE /\ rcv' = RReturn(Err(FromIoError(io), "flush"))
              /\ outFile' = LeftBehind(outFile)
              /\ link' = Drop(link)
    /\ UNCHANGED <<calc, srcFile, srcTouched, snd, relay, s2r, r2s, wireTouched>>

\* hash::compute_file_hash(&file_path).await?; on mismatch remove_file,
\* ERROR:hash_mismatch, InvalidInput("File integrity check failed")
R_VerifyHash ==
    /\ rcv.pc = "hash"
    /\ \E io \in {"ok"} \cup IoErrorKinds :
         IF io # "ok"
         THEN /\ rcv' = RReturn(Err(FromIoError(io), "hash"))
              /\ outFile' = LeftBehind(outFile)
              /\ r2s' = r2s
              /\ link' = Drop(link)
         ELSE IF compute_file_hash(outFile.data) # Session.file_hash
         THEN /\ rcv' = [RReturn(Err("InvalidInput", "File integrity check failed"))
                           EXCEPT !.did = rcv.did \cup {"hash_mismatch"}]
              /\ outFile' = Removed
              /\ r2s' = Signalled(ERROR_HASH_MISMATCH)
              /\ link' = Drop(link)
         ELSE /\ rcv' = [rcv EXCEPT !.pc = "done",
                                    !.did = rcv.did \cup {"hash_ok"}]
              /\ outFile' = outFile
              /\ r2s' = r2s
              /\ link' = link
    /\ UNCHANGED <<calc, srcFile, srcTouched, snd, relay, s2r, wireTouched>>

\* session.write_all(DONE_SIGNAL).await?; session.flush().await?; Ok(()).
\* On a connection the relay has closed the write either fails, or is taken
\* by the socket and the bytes are lost.  (The locals of a successful run are
\* kept, for the record.)
R_Done ==
    /\ rcv.pc = "done"
    /\ \E taken \in BOOLEAN :
         IF link = "up" \/ taken
         THEN /\ rcv' = [rcv EXCEPT !.pc = "returned", !.ret = Ok,
                                    !.did = rcv.did \cup {"done"}]
              /\ r2s' = IF link = "up" THEN r2s \o DONE_SIGNAL ELSE r2s
         ELSE /\ rcv' = RReturn(Err("NetworkError", "Failed to flush socket"))
              /\ r2s' = r2s
    /\ link' = Drop(link)
    /\ UNCHANGED <<calc, srcFile, srcTouched, snd, relay, s2r, wireTouched, outFile>>

Next ==
    \/ S_Stat \/ S_Hash \/ S_Sign \/ S_ServePost \/ S_Hello \/ S_Ack
    \/ S_DeriveKey \/ S_SendChunk \/ S_EndOfFile \/ S_Flush
    \/ S_AwaitAck \/ S_AwaitAckClosed
    \/ Relay_ServeReply \/ Relay_ListenReply \/ Relay_Ready \/ Relay_Refuse
    \/ Relay_Corrupt \/ Relay_Reorder \/ Relay_Close \/ Env_TouchFile
    \/ R_Start \/ R_ListenPost \/ R_Hello \/ R_Ack
    \/ R_CheckFingerprint \/ R_VerifySignature \/ R_DeriveKey \/ R_CreateFile
    \/ R_ReadPrefix \/ R_ReadPrefixInterrupted
    \/ R_ReadChunk \/ R_ReadChunkInterrupted
    \/ R_Flush \/ R_VerifyHash \/ R_Done

Spec == Init /\ [][Next]_vars

(***************************************************************************)
(* The functions of crypto/key_exchange.rs and crypto/encryption.rs called *)
(* on their own, as tests/test_exchange.rs and tests/test_encryption.rs do,*)
(* and the health command (args/health.rs).  No transfer runs.             *)
(***************************************************************************)
\* the ephemeral secrets of the two key pairs
Secrets == {SenderSecret, ReceiverSecret, RelaySecret}

\* session ids the functions are called with: those of SessionIds, one of
\* them followed by a zero byte, the empty string, a zero byte alone
SessionIdInputs ==
    SessionIds \cup {<<"s", "1", NUL>>, <<>>, <<NUL>>}

\* kinds of std::io::Error, among them those the transfer meets
StdIoErrorKinds ==
    IoErrorKinds \cup {"UnexpectedEof", "ConnectionReset", "AlreadyExists", "InvalidData"}

\* what GET /actuator/health may be answered with
HealthResponses ==
    {[kind |-> "unreachable", status |-> 0]}
    \cup {[kind |-> "json", status |-> st] : st \in HttpStatuses}

CryptoInit ==
    /\ InitTransfer
    /\ srcFile = <<>>
    /\ snd.file = "file"
    /\ IsSome(snd.to)
    /\ rcv.contact = Some(SenderFp)
    /\ \E a \in Secrets, b \in Secrets, s \in SessionIdInputs, t \in SessionIdInputs,
          p \in Files, response \in HealthResponses :
         calc = [pc |-> "input", a |-> a, b |-> b, s |-> s, t |-> t, p |-> p,
                 response |-> response,
                 key_a |-> None, key_b |-> None, key_s |-> None, key_t |-> None,
                 encrypted |-> None, decrypted |-> None, health |-> Running,
                 io |-> None]

\* test_full_key_exchange: each side calls perform_key_exchange with its own
\* secret, the other's public_key_hex and the session id
K_PerformKeyExchange ==
    /\ calc.pc = "input"
    /\ calc' = [calc EXCEPT
                  !.pc = "exchanged",
                  !.key_a = perform_key_exchange(calc.a, public_key_hex(calc.b), calc.s),
                  !.key_b = perform_key_exchange(calc.b, public_key_hex(calc.a), calc.s)]
    /\ UNCHANGED <<srcFile, srcTouched, snd, rcv, relay, link, s2r, r2s, wireTouched, outFile>>

\* test_derive_aes_key: derive_aes_key of one shared secret under two
\* session ids
K_DeriveAesKey ==
    /\ calc.pc = "exchanged"
    /\ LET shared_secret == compute_shared_secret(calc.a, calc.b)
       IN  calc' = [calc EXCEPT
                      !.pc = "derived",
                      !.key_s = Some(derive_aes_key(shared_secret, calc.s)),
                      !.key_t = Some(derive_aes_key(shared_secret, calc.t))]
    /\ UNCHANGED <<srcFile, srcTouched, snd, rcv, relay, link, s2r, r2s, wireTouched, outFile>>

\* encrypt_chunk(&aes_key, plaintext) under a nonce drawn by OsRng
E_EncryptChunk ==
    /\ calc.pc = "derived"
    /\ \E nonce \in 0..1 :
         calc' = [calc EXCEPT
                    !.pc = "encrypted",
                    !.encrypted = Some(encrypt_chunk(Unwrap(calc.key_s), calc.p, nonce))]
    /\ UNCHANGED <<srcFile, srcTouched, snd, rcv, relay, link, s2r, r2s, wireTouched, outFile>>

\* decrypt_chunk(&aes_key, &encrypted)
E_DecryptChunk ==
    /\ calc.pc = "encrypted"
    /\ calc' = [calc EXCEPT
                  !.pc = "decrypted",
                  !.decrypted = Some(decrypt_chunk(Unwrap(calc.key_s),
                                                   Unwrap(calc.encrypted)))]
    /\ UNCHANGED <<srcFile, srcTouched, snd, rcv, relay, link, s2r, r2s, wireTouched, outFile>>

\* test_decrypt_with_wrong_key: decrypt_chunk under another key (the one
\* derived under the other session id)
E_DecryptWrongKey ==
    /\ calc.pc = "encrypted"
    /\ calc.key_t # calc.key_s
    /\ calc' = [calc EXCEPT
                  !.pc = "wrong_key",
                  !.decrypted = Some(decrypt_chunk(Unwrap(calc.key_t),
                                                   Unwrap(calc.encrypted)))]
    /\ UNCHANGED <<srcFile, srcTouched, snd, rcv, relay, link, s2r, r2s, wireTouched, outFile>>

\* test_decrypt_corrupted_data: a bit of the nonce, the ciphertext or the tag
\* is flipped before decrypt_chunk
E_DecryptTampered ==
    /\ calc.pc = "encrypted"
    /\ \E how \in {"nonce", "ct", "tag"} :
         LET tampered == Corrupted(Unwrap(calc.encrypted), how)
         IN  calc' = [calc EXCEPT
                        !.pc = "tampered",
                        !.encrypted = Some(tampered),
                        !.decrypted = Some(decrypt_chunk(Unwrap(calc.key_s), tampered))]
    /\ UNCHANGED <<srcFile, srcTouched, snd, rcv, relay, link, s2r, r2s, wireTouched, outFile>>

\* test_decrypt_truncated_data: decrypt_chunk of fewer than 28 bytes
E_DecryptShort ==
    /\ calc.pc = "encrypted"
    /\ \E n \in {0, NONCE_LEN, NONCE_LEN + TAG_LEN - 1} :
         LET short == [Unwrap(calc.encrypted) EXCEPT !.len = n]
         IN  calc' = [calc EXCEPT
                        !.pc = "short",
                        !.encrypted = Some(short),
                        !.decrypted = Some(decrypt_chunk(Unwrap(calc.key_s), short))]
    /\ UNCHANGED <<srcFile, srcTouched, snd, rcv, relay, link, s2r, r2s, wireTouched, outFile>>

\* health::run: relay_client.health_check().await?
H_HealthCheck ==
    /\ calc.pc = "decrypted"
    /\ calc' = [calc EXCEPT !.pc = "done", !.health = health_check(calc.response)]
    /\ UNCHANGED <<srcFile, srcTouched, snd, rcv, relay, link, s2r, r2s, wireTouched, outFile>>

\* Error::from(std::io::Error), as "?" applies it
U_FromIoError ==
    /\ calc.pc = "done"
    /\ \E kind \in StdIoErrorKinds :
         calc' = [calc EXCEPT !.pc = "io_error",
                              !.io = Some([kind |-> kind, error |-> FromIoError(kind)])]
    /\ UNCHANGED <<srcFile, srcTouched, snd, rcv, relay, link, s2r, r2s, wireTouched, outFile>>

CryptoNext ==
    \/ K_PerformKeyExchange \/ K_DeriveAesKey
    \/ E_EncryptChunk \/ E_DecryptChunk
    \/ E_DecryptWrongKey \/ E_DecryptTampered \/ E_DecryptShort
    \/ H_HealthCheck \/ U_FromIoError

CryptoSpec == CryptoInit /\ [][CryptoNext]_vars

(***************************************************************************)
(* Properties.                                                             *)
(***************************************************************************)
ReceiverReturned == rcv.pc = "returned"

ReceiverSucceeded == ReceiverReturned /\ rcv.ret = Ok

IsPrefix(a, b) == Len(a) <= Len(b) /\ a = SubSeq(b, 1, Len(a))

\* the sender has streamed the whole file and flushed it without an error
SenderSentAll == snd.pc = "ack" \/ (snd.pc = "returned" /\ snd.ret = Ok)

SessionEnvelope == MetadataMsg(Session.filename, Session.file_size, Session.file_hash)

\* C2: DONE is written only after the sender fingerprint equalled the expected
\* contact's, the metadata signature verified under it, every frame read was
\* decrypted, the announced size was reached, and the hash of the output file
\* on disk equals the hash of the envelope; in no reachable state has DONE
\* been written while the two hashes differ.
C2_DoneOnlyAfterAllChecks ==
    "done" \in rcv.did =>
        /\ Session.sender_fp = Unwrap(rcv.contact)
        /\ verify_strict(Session.sender_fp, SessionEnvelope, Session.signature)
        /\ "aead_failed" \notin rcv.did
        /\ rcv.total_received >= Session.file_size
        /\ outFile.exists
        /\ compute_file_hash(outFile.data) = Session.file_hash

\* DONE written, and delivered, after a transfer of two frames
C2_Witness ==
    /\ "done" \in rcv.did
    /\ rcv.frames >= 2
    /\ r2s = DONE_SIGNAL

\* the receiver waits for a size prefix or a blob, nothing is left to read and
\* the connection has ended
C3_Interrupted ==
    /\ rcv.pc \in {"loop", "blob"}
    /\ rcv.pc = "loop" => rcv.total_received < Session.file_size
    /\ s2r = <<>>
    /\ link = "closed"

C4_AeadFailureRemovesFile ==
    (ReceiverReturned /\ "aead_failed" \in rcv.did) => ~outFile.exists

\* C5: when writing a chunk, flushing the output or re-reading it for the hash
\* fails, the partial output file is removed before the receiver returns.
C5_IoFailureRemovesFile ==
    (ReceiverReturned /\ rcv.ret.msg \in {"write", "flush", "hash"}) =>
        ~outFile.exists

C7_WrongSenderIsInvalidInput ==
    "fp_mismatch" \in rcv.did =>
        /\ ReceiverReturned
        /\ rcv.ret.kind = "InvalidInput"
        /\ rcv.did \cap {"sig_ok", "sig_failed", "key", "created"} = {}
        /\ ~outFile.exists
        /\ rcv.frames = 0

\* the signature is well formed and does not verify over the rebuilt envelope
\* under the sender's identity key
C8_SignatureDoesNotVerify ==
    /\ rcv.pc = "verify"
    /\ Session.sender_fp.len = FP_HEX_LEN
    /\ Session.signature.hexok
    /\ ~verify_strict(Session.sender_fp, SessionEnvelope, Session.signature)

C9_SignatureBindsTriple ==
    (/\ "sig_ok" \in rcv.did
     /\ IsSome(rcv.session)
     /\ IsSome(relay.serve)
     /\ Session.signature = Unwrap(relay.serve).signature) =>
        /\ Session.filename = Unwrap(relay.serve).filename
        /\ Session.file_size = Unwrap(relay.serve).fileSize
        /\ Session.file_hash = Unwrap(relay.serve).fileHash

\* C10: a signature that does not verify is reported as InvalidSignature, by
\* verify_signature and by the receiver's run, and not as the kind used for a
\* fingerprint mismatch.
C10_SignatureFailureIsInvalidSignature ==
    "sig_failed" \in rcv.did =>
        /\ rcv.ret.kind = "InvalidSignature"
        /\ rcv.ret.kind # FingerprintMismatchResult(AliceFp, MalloryFp).kind

\* C11: a session whose filename holds a path separator or a parent
\* reference is rejected; in every reachable state the file the receiver
\* has created is a direct child of the download directory.
C11_OutputPathConfined ==
    outFile.exists =>
        /\ Len(outFile.path) = Len(DownloadDir) + 1
        /\ SubSeq(outFile.path, 1, Len(DownloadDir)) = DownloadDir

\* C12: whenever serve has returned a session to the sender (READY was
\* seen), the session carries the receiver's ephemeral public key, also when
\* the HTTP response came before the receiver arrived and left the key out.
C12_SessionCarriesReceiverKey ==
    snd.pc = "derive" => IsSome(Unwrap(snd.session).receiver_ephemeral_key)

\* C13: for a 2xx listen response in which one of the nine fields is missing,
\* listen returns SessionError and opens no TCP connection.
C13_MissingFieldIsSessionError ==
    /\ "field_missing" \in rcv.did =>
          /\ rcv.ret.kind = "SessionError"
          /\ ~IsSome(relay.r_hello)
    /\ "field_missing" \in rcv.did =>
          \A field \in ListenFields : MissingFieldResult(field).kind = "SessionError"

\* C14: for serve and for listen, a response body that is not well-formed
\* JSON of the expected shape yields SessionError, and no TCP connection is
\* opened.
C14_MalformedJsonIsSessionError ==
    /\ snd.ret.msg = "Failed to parse session response" =>
          snd.ret.kind = "SessionError" /\ ~IsSome(relay.s_hello)
    /\ rcv.ret.msg = "Failed to parse session response" =>
          rcv.ret.kind = "SessionError" /\ ~IsSome(relay.r_hello)

\* the responses that carry an HTTP status outside 2xx
NonSuccessServeResponses ==
    {r \in ServeResponses \cup HttpFailures :
        r.kind # "unreachable" /\ ~(r.status \in 200..299)}

NonSuccessListenResponses ==
    {r \in HttpFailures
            \cup (IF IsSome(relay.serve)
                  THEN {[HonestListenResponse(Unwrap(relay.serve)) EXCEPT !.status = st] :
                            st \in HttpStatuses}
                  ELSE {}) :
        r.kind # "unreachable" /\ ~(r.status \in 200..299)}

\* the sender (receiver) has not got a parsed 2xx response
SenderHasNoSession ==
    \/ snd.pc \in {"start", "hash", "sign", "serve", "serve_wait"}
    \/ snd.ret.msg \in {"Status", "Failed to call serve API",
                       "Failed to parse session response",
                       "path", "is not a file", "Contact not found"}

ReceiverHasNoSession ==
    \/ rcv.pc \in {"start", "listen", "listen_wait"}
    \/ rcv.ret.msg \in {"Status", "Failed to call listen API",
                       "Failed to parse session response", "Contact not found",
                       "Server did not return field",
                       "Server did not return ephemeral key"}

\* C15: for serve, listen and health_check every HTTP status outside 2xx
\* yields NetworkError carrying the status; a handshake line is sent on the
\* TCP connection only by a side that has parsed a 2xx response, so a run
\* that ended on a non-2xx status has sent none.
C15_NonSuccessStatus ==
    /\ snd.pc = "serve_wait" =>
          \A r \in NonSuccessServeResponses :
              /\ ServeHttpResult(r) = StatusError(r.status)
              /\ health_check(r) = StatusError(r.status)
    /\ rcv.pc = "listen_wait" =>
          \A r \in NonSuccessListenResponses :
              ListenHttpResult(r) = StatusError(r.status)
    /\ snd.ret.msg = "Status" =>
          /\ snd.ret.kind = "NetworkError"
          /\ ~(snd.ret.status \in 200..299)
    /\ rcv.ret.msg = "Status" =>
          /\ rcv.ret.kind = "NetworkError"
          /\ ~(rcv.ret.status \in 200..299)
    /\ SenderHasNoSession => ~IsSome(relay.s_hello)
    /\ ReceiverHasNoSession => ~IsSome(relay.r_hello)

\* the sender's serve call has ended on a status outside 2xx while the
\* receiver waits for its own answer
C15_Witness ==
    /\ snd.pc = "returned"
    /\ snd.ret = StatusError(503)
    /\ rcv.pc = "listen_wait"

\* the bytes the sender's acknowledgement read takes off the connection in
\* this step
AckBytesRead == SubSeq(r2s, 1, Len(r2s) - Len(r2s'))

\* C16: once the last frame is flushed, whatever the acknowledgement wait
\* yields (DONE, other bytes, end of stream, a read error) the sender's run
\* returns success; it reports the receipt as confirmed only when the bytes
\* read are exactly DONE\n.
C16_AckWaitNeverFails ==
    [][(snd.pc = "ack" /\ snd' # snd) =>
          /\ snd'.pc = "returned"
          /\ snd'.ret = Ok
          /\ snd'.ack \in {"confirmed", "unexpected", "failed"}
          /\ snd'.ack = "confirmed" <=> AckBytesRead = DONE_SIGNAL]_vars

\* the sender returned success after its read took the first ten bytes of
\* the receiver's hash-mismatch signal
C16_Witness ==
    /\ snd.pc = "returned"
    /\ snd.ret = Ok
    /\ snd.ack = "unexpected"
    /\ "hash_mismatch" \in rcv.did
    /\ r2s = SubSeq(ERROR_HASH_MISMATCH, ACK_BUFFER_LEN + 1, Len(ERROR_HASH_MISMATCH))

(***************************************************************************)
(* The happy path: a relay that answers both HTTP calls faithfully, pairs  *)
(* the two connections and forwards every byte in order; a receiver whose  *)
(* contact is the sender; a source file nobody rewrites; a disk that takes *)
(* every write.  Each of the three programs keeps running.                 *)
(***************************************************************************)
HappyInit ==
    /\ Init
    /\ snd.file = "file"
    /\ IsSome(snd.to)
    /\ rcv.contact = Some(SenderFp)

\* the relay answers serve with the receiver's key if the receiver has
\* arrived and without it if not
Honest_ServeReply == ServeReply(HonestServeResponses)

\* the relay answers listen with what the sender sent and both keys
Honest_ListenReply ==
    /\ IsSome(relay.serve)
    /\ ListenReply({HonestListenResponse(Unwrap(relay.serve))})

\* the local file system reports no error
NoIoError == rcv.ret.kind \notin {FromIoError(io) : io \in IoErrorKinds}

Happy_CreateFile == R_CreateFile /\ NoIoError'
Happy_ReadChunk == R_ReadChunk /\ NoIoError'
Happy_Flush == R_Flush /\ NoIoError'
Happy_VerifyHash == R_VerifyHash /\ NoIoError'

\* the acknowledgement line arrives in one piece
Happy_AwaitAck == S_AwaitAck /\ r2s' = <<>>

\* (the acknowledgement wait never finds the connection ended with nothing
\* to read, and no read_exact of a blob is interrupted: the receiver ends
\* only after writing DONE, the sender only before its first frame or after
\* its last)
SenderNext ==
    \/ S_Stat \/ S_Hash \/ S_Sign \/ S_ServePost \/ S_Hello \/ S_Ack
    \/ S_DeriveKey \/ S_SendChunk \/ S_EndOfFile \/ S_Flush
    \/ Happy_AwaitAck

RelayNext ==
    \/ Honest_ServeReply \/ Honest_ListenReply \/ Relay_Ready

ReceiverNext ==
    \/ R_Start \/ R_ListenPost \/ R_Hello \/ R_Ack
    \/ R_CheckFingerprint \/ R_VerifySignature \/ R_DeriveKey
    \/ Happy_CreateFile
    \/ R_ReadPrefix \/ R_ReadPrefixInterrupted
    \/ Happy_ReadChunk
    \/ Happy_Flush \/ Happy_VerifyHash \/ R_Done

HappyNext == SenderNext \/ RelayNext \/ ReceiverNext

LiveSpec ==
    /\ HappyInit
    /\ [][HappyNext]_vars
    /\ WF_vars(SenderNext)
    /\ WF_vars(RelayNext)
    /\ WF_vars(ReceiverNext)

\* both runs have ended, the receiver after writing DONE and with success,
\* the sender with success and the receipt confirmed
BothCompleted ==
    /\ rcv.pc = "returned"
    /\ rcv.ret = Ok
    /\ "done" \in rcv.did
    /\ snd.pc = "returned"
    /\ snd.ret = Ok
    /\ snd.ack = "confirmed"

\* C17: on the happy path both runs eventually terminate, the receiver
\* having written DONE and returned success, the sender having read it and
\* returned success.
C17_HappyPathCompletes == <>BothCompleted

\* the sender holds a session without the receiver's ephemeral key
SenderLacksReceiverKey ==
    /\ IsSome(snd.session)
    /\ ~IsSome(Unwrap(snd.session).receiver_ephemeral_key)

\* both runs have ended as the happy path should
HappyPathCompleted == BothCompleted /\ outFile.exists /\ outFile.data = srcFile

\* the same, for the runs in which the serve response carried the key
HappyPathCompletesWhenKeyEchoed == <>(BothCompleted \/ SenderLacksReceiverKey)

\* C18: for any two ephemeral key pairs A and B and any session id s,
\* perform_key_exchange(A.secret, hex(B.public), s) and
\* perform_key_exchange(B.secret, hex(A.public), s) succeed and return the
\* same key.
C18_KeyAgreementSymmetric ==
    calc.pc \in {"exchanged", "derived", "encrypted", "decrypted", "done"} =>
        /\ IsSome(calc.key_a)
        /\ IsSome(calc.key_b)
        /\ calc.key_a = calc.key_b

\* both sides of two different key pairs have derived their key
C18_Witness ==
    /\ calc.pc = "exchanged"
    /\ calc.a = SenderSecret
    /\ calc.b = ReceiverSecret
    /\ IsSome(calc.key_a)

\* C19: for the same shared secret, derive_aes_key returns different keys
\* for different session ids.
C19_SessionIdBindsKey ==
    (calc.pc \in {"derived", "encrypted", "decrypted", "done"} /\ calc.s # calc.t) =>
        calc.key_s # calc.key_t

\* C20: for every key and every plaintext, the empty one included,
\* decrypt_chunk(k, encrypt_chunk(k, p)) succeeds and returns p; the blob is
\* 12 + |p| + 16 bytes long.
C20_AeadRoundTrip ==
    calc.pc \in {"decrypted", "done"} =>
        /\ Unwrap(calc.decrypted).ok
        /\ Unwrap(calc.decrypted).plaintext = calc.p
        /\ Unwrap(calc.encrypted).len = NONCE_LEN + Len(calc.p) + TAG_LEN

\* the empty plaintext has been encrypted and decrypted again
C20_Witness ==
    /\ calc.pc = "decrypted"
    /\ calc.p = <<>>
    /\ Unwrap(calc.decrypted).ok
    /\ Unwrap(calc.encrypted).len = NONCE_LEN + TAG_LEN

\* C21: decrypt_chunk under a key other than the one the blob was made
\* with fails, and so does decrypt_chunk of a blob in which a bit of the
\* nonce, the ciphertext or the tag was changed; no plaintext is returned.
C21_AeadAuthenticity ==
    calc.pc \in {"wrong_key", "tampered"} =>
        /\ ~Unwrap(calc.decrypted).ok
        /\ Unwrap(calc.decrypted).err \in {"too short", "decryption failed"}
        /\ Unwrap(calc.decrypted).plaintext = <<>>

\* a non-empty plaintext was encrypted and a bit of the tag flipped
C21_Witness ==
    /\ calc.pc = "tampered"
    /\ calc.p # <<>>
    /\ Unwrap(calc.encrypted).tag.flip
    /\ ~Unwrap(calc.decrypted).ok

\* the key decrypt_chunk was called with
DecryptKey == IF calc.pc = "wrong_key" THEN Unwrap(calc.key_t) ELSE Unwrap(calc.key_s)

\* C22: decrypt_chunk fails with "too short" for every input of fewer than
\* 28 bytes; for an input of 28 bytes or more it succeeds exactly when
\* AEAD-open does, and the 28-byte blob of the empty plaintext decrypts to
\* the empty plaintext.
C22_ShortInputRejected ==
    calc.pc \in {"decrypted", "wrong_key", "tampered", "short", "done"} =>
        LET encrypted == Unwrap(calc.encrypted)
            decrypted == Unwrap(calc.decrypted)
        IN  IF encrypted.len < 28
            THEN ~decrypted.ok /\ decrypted.err = "too short"
            ELSE /\ decrypted.err # "too short"
                 /\ decrypted.ok <=>
                        (/\ encrypted.tag = Tag(DecryptKey, encrypted.nonce, encrypted.ct)
                         /\ encrypted.ct = Seal(DecryptKey, encrypted.nonce, encrypted.ct.p))
                 /\ (calc.pc = "decrypted" /\ calc.p = <<>>) =>
                        encrypted.len = 28 /\ decrypted.ok /\ decrypted.plaintext = <<>>

\* a 27-byte input was turned away
C22_Witness ==
    /\ calc.pc = "short"
    /\ Unwrap(calc.encrypted).len = 27
    /\ Unwrap(calc.decrypted).err = "too short"

\* what the sender does after its arguments are checked
SenderLaterSteps == {"hashed", "signed", "ephemeral", "posted"}

\* C23: a path that does not exist makes the sender return FileNotFound, one
\* that exists but is not a regular file (a directory, a link to one) makes
\* it return InvalidInput; in both cases it has not read keys or contacts,
\* hashed anything or contacted the relay.
C23_SenderFileValidation ==
    (snd.file # "file" /\ snd.pc # "start") =>
        /\ snd.pc = "returned"
        /\ snd.ret.kind = IF snd.file = "missing" THEN "FileNotFound" ELSE "InvalidInput"
        /\ snd.did = {}
        /\ ~IsSome(relay.serve)
        /\ ~IsSome(relay.s_hello)

\* the sender was given a link to a directory and has returned
C23_Witness ==
    /\ snd.file = "link_to_dir"
    /\ snd.pc = "returned"
    /\ snd.ret.kind = "InvalidInput"

\* C24: with a `to` name that is not among the contacts the sender returns
\* InvalidInput before hashing the file, signing, generating an ephemeral
\* key or contacting the relay; no session exists.
C24_UnknownRecipient ==
    (snd.file = "file" /\ ~IsSome(snd.to) /\ snd.pc # "start") =>
        /\ snd.pc = "returned"
        /\ snd.ret = Err("InvalidInput", "Contact not found")
        /\ snd.did \cap SenderLaterSteps = {}
        /\ ~IsSome(relay.serve)
        /\ ~IsSome(relay.s_hello)
        /\ ~IsSome(snd.session)
        /\ link = "down"

\* the sender has returned for an unknown recipient while the receiver
\* waits at the relay
C24_Witness ==
    /\ ~IsSome(snd.to)
    /\ snd.ret = Err("InvalidInput", "Contact not found")
    /\ srcFile # <<>>
    /\ rcv.pc = "listen_wait"

\* C25: the receiver resolves the `from` contact before it creates the
\* download directory and before it contacts the relay: an unknown name
\* yields InvalidInput with no directory created and no listen request sent.
C25_UnknownSenderCreatesNothing ==
    rcv.ret.msg = "Contact not found" =>
        /\ rcv.ret.kind = "InvalidInput"
        /\ ~rcv.dir
        /\ ~IsSome(relay.listen)

\* C26: an I/O error converted into the program's error becomes a file
\* error when its kind is not-found or permission-denied and NetworkError
\* for every other kind; none becomes CryptoError, InvalidInput, ConfigError
\* or SessionError.
C26_IoErrorNormalised ==
    calc.pc = "io_error" =>
        LET io == Unwrap(calc.io)
        IN  /\ io.kind \in {"NotFound", "PermissionDenied"} =>
                  io.error \in {"FileNotFound", "FileRead", "FileWrite", "FileDelete"}
            /\ io.kind \notin {"NotFound", "PermissionDenied"} =>
                  io.error = "NetworkError"

\* a permission error has been converted
C26_Witness ==
    /\ calc.pc = "io_error"
    /\ Unwrap(calc.io).kind = "PermissionDenied"
    /\ Unwrap(calc.io).error = "FileRead"

\* ---------------------------------------------------------------------
\* The relay list of the configuration file and the commands that edit it
\* ---------------------------------------------------------------------

DEFAULT_HTTP_PORT == 8080
DEFAULT_SOCKET_PORT == 10000

\* the server list a fresh configuration holds
get_default_server_config ==
    [server_name |-> "my_server", default |-> TRUE, server_ip |-> "127.0.0.1",
     http_port |-> DEFAULT_HTTP_PORT, socket_port |-> DEFAULT_SOCKET_PORT]

\* the arguments of "relay add": a name and an address, and each port given
\* or left out
AddCommands ==
    [op : {"add"}, name : {"my_server", "eu", "us"}, ip : {"127.0.0.1", "10.0.0.2"},
     http_port : {None, Some(9000)}, socket_port : {None, Some(9001)}]

\* the ServerConfig that relays::add makes of its arguments
AddedServerConfig(cmd) ==
    [server_name |-> cmd.name, default |-> FALSE, server_ip |-> cmd.ip,
     http_port |-> IF IsSome(cmd.http_port) THEN Unwrap(cmd.http_port) ELSE 8000,
     socket_port |-> IF IsSome(cmd.socket_port) THEN Unwrap(cmd.socket_port) ELSE 10000]

\* an add_server that leaves the defaults it finds as they are
add_server_keeps_defaults(server_list, server) ==
    IF \E k \in 1..Len(server_list) : server_list[k].server_name = server.server_name
    THEN [result |-> Err("InvalidInput", "Server already exists"), server |-> server_list]
    ELSE [result |-> Ok, server |-> Append(server_list, server)]

\* config::add_server up to the push; the save follows in the command
add_server(server_list, server) ==
    IF \E k \in 1..Len(server_list) : server_list[k].server_name = server.server_name
    THEN [result |-> Err("InvalidInput", "Server already exists"), server |-> server_list]
    ELSE IF \E k \in 1..Len(server_list) :
                /\ server_list[k].server_ip = server.server_ip
                /\ server_list[k].server_name = server.server_name
    THEN [result |-> Err("InvalidInput", "Server with same IP or name already exists"),
          server |-> server_list]
    ELSE [result |-> Ok,
          server |-> Append(IF server.default
                            THEN [k \in 1..Len(server_list) |->
                                    [server_list[k] EXCEPT !.default = FALSE]]
                            ELSE server_list,
                            server)]

\* config::remove_server up to the save: the default server and an unknown
\* name are refused; otherwise the entries of that name are dropped from the
\* list and the removed entry is then looked for in what is left, and the
\* unwrap of a search that found nothing panics
remove_server(server_list, target) ==
    LET retained == SelectSeq(server_list, LAMBDA sv : sv.server_name # target)
    IN  IF \E k \in 1..Len(server_list) :
              server_list[k].server_name = target /\ server_list[k].default
        THEN [result |-> Err("InvalidInput", "Cannot remove default server"),
              server |-> server_list, removed |-> None]
        ELSE IF Len(retained) = Len(server_list)
        THEN [result |-> Err("InvalidInput", "Server not found"),
              server |-> retained, removed |-> None]
        ELSE IF \E k \in 1..Len(retained) : retained[k].server_name = target
        THEN [result |-> Ok, server |-> retained,
              removed |-> Some(retained[CHOOSE k \in 1..Len(retained) :
                                          /\ retained[k].server_name = target
                                          /\ \A j \in 1..(k - 1) :
                                               retained[j].server_name # target])]
        ELSE [result |-> Err("panic", "called Option::unwrap() on a None value"),
              server |-> retained, removed |-> None]

\* Config::select_server: the server of that name, or without a name the
\* first one marked default
select_server(server_list, name) ==
    LET wanted == {k \in 1..Len(server_list) :
                      IF IsSome(name) THEN server_list[k].server_name = Unwrap(name)
                      ELSE server_list[k].default}
    IN  IF wanted = {}
        THEN [result |-> Err("InvalidInput",
                             IF IsSome(name) THEN "Relay server not found in config"
                             ELSE "No default server in config"),
              server |-> None]
        ELSE [result |-> Ok,
              server |-> Some(server_list[CHOOSE k \in wanted : \A j \in wanted : k <= j])]

\* the configuration file is absent, or holds what "init" wrote.  Of each
\* command the state keeps the arguments (cmd), the file as the command
\* found it (before), the list the command held in memory when it ended
\* (mem), what it returned (result) and the file as it is now (config).
ConfigInit ==
    /\ InitTransfer
    /\ srcFile = <<>>
    /\ snd.file = "file"
    /\ IsSome(snd.to)
    /\ rcv.contact = Some(SenderFp)
    /\ \E config \in {None, Some(<<get_default_server_config>>)} :
         calc = [pc |-> "config", config |-> config, cmd |-> None, result |-> Ok,
                 before |-> None, mem |-> None]

\* a command that found no configuration file: it prints and returns Ok
NoConfigFile(cmd) ==
    [calc EXCEPT !.cmd = Some(cmd), !.result = Ok, !.before = None, !.mem = None]

\* add_server and what follows it: the list is saved when add_server took
\* the server, and a failed save leaves the file as it was
AddAndSave(cmd, server, saved) ==
    LET added == add_server(Unwrap(calc.config), server)
    IN  [calc EXCEPT
           !.cmd = Some(cmd), !.before = calc.config, !.mem = Some(added.server),
           !.result = IF added.result # Ok THEN added.result
                      ELSE IF ~saved THEN Err("FileWrite", "Failed to write config")
                      ELSE Ok,
           !.config = IF added.result = Ok /\ saved THEN Some(added.server)
                      ELSE calc.config]

\* relays::add: without a configuration file it only prints; otherwise the
\* server is added in memory and the configuration saved
Relay_Add ==
    /\ calc.pc = "config"
    /\ \E cmd \in AddCommands, saved \in BOOLEAN :
         calc' = IF ~IsSome(calc.config) THEN NoConfigFile(cmd)
                 ELSE AddAndSave(cmd, AddedServerConfig(cmd), saved)
    /\ UNCHANGED <<srcFile, srcTouched, snd, rcv, relay, link, s2r, r2s, wireTouched, outFile>>

\* config::add_server called with a server of the caller's making, which may
\* be marked default
Config_AddServer ==
    /\ calc.pc = "config"
    /\ IsSome(calc.config)
    /\ \E name \in {"my_server", "eu", "us"}, ip \in {"127.0.0.1", "10.0.0.2"},
          default \in BOOLEAN, saved \in BOOLEAN :
         LET server == [server_name |-> name, default |-> default, server_ip |-> ip,
                        http_port |-> DEFAULT_HTTP_PORT,
                        socket_port |-> DEFAULT_SOCKET_PORT]
         IN  calc' = AddAndSave([op |-> "add_server", name |-> name, ip |-> ip,
                                 default |-> default],
                                server, saved)
    /\ UNCHANGED <<srcFile, srcTouched, snd, rcv, relay, link, s2r, r2s, wireTouched, outFile>>

\* relays::remove: without a configuration file it only prints; otherwise
\* remove_server, whose last step is the save
Relay_Remove ==
    /\ calc.pc = "config"
    /\ \E name \in {"my_server", "eu", "us", "nowhere"}, saved \in BOOLEAN :
         LET cmd == [op |-> "remove", name |-> name]
             removed == remove_server(Unwrap(calc.config), name)
         IN  calc' =
               IF ~IsSome(calc.config) THEN NoConfigFile(cmd)
               ELSE [calc EXCEPT
                       !.cmd = Some(cmd), !.before = calc.config,
                       !.mem = Some(removed.server),
                       !.result = IF removed.result # Ok THEN removed.result
                                  ELSE IF ~saved
                                  THEN Err("FileWrite", "Failed to write config")
                                  ELSE Ok,
                       !.config = IF removed.result = Ok /\ saved
                                  THEN Some(removed.server) ELSE calc.config]
    /\ UNCHANGED <<srcFile, srcTouched, snd, rcv, relay, link, s2r, r2s, wireTouched, outFile>>

ConfigNext == Relay_Add \/ Config_AddServer \/ Relay_Remove

ConfigSpec == ConfigInit /\ [][ConfigNext]_vars

\* the last command added its server to the configuration file
ServerAdded ==
    /\ calc.pc = "config"
    /\ IsSome(calc.cmd) /\ IsSome(calc.config)
    /\ Unwrap(calc.cmd).op = "add"
    /\ calc.result = Ok
    /\ Len(Unwrap(calc.config)) > 0
    /\ Unwrap(calc.config)[Len(Unwrap(calc.config))].server_name = Unwrap(calc.cmd).name

\* the entry the last command stored
StoredServer == Unwrap(calc.config)[Len(Unwrap(calc.config))]

\* C27: "relay add" without an HTTP port stores 8080, and without a socket
\* port stores 10000.
C27_AddDefaultsPorts ==
    ServerAdded =>
        /\ ~IsSome(Unwrap(calc.cmd).http_port) => StoredServer.http_port = 8080
        /\ ~IsSome(Unwrap(calc.cmd).socket_port) => StoredServer.socket_port = 10000

\* C28: on each connection the client first writes "{session_id}:{role}\n",
\* the role sender from serve and receiver from listen and the session id the
\* one the relay returned, then reads READY, then writes ACK; ACK is never
\* written before READY was read, and no frame, DONE or ERROR is written on
\* the connection before ACK.
C28_HandshakeOrdering ==
    /\ (IsSome(relay.s_hello) /\ snd.pc # "returned") =>
          Unwrap(relay.s_hello) =
              Unwrap(snd.session).session_id \o <<":", "sender", "\n">>
    /\ (IsSome(relay.r_hello) /\ rcv.pc # "returned") =>
          Unwrap(relay.r_hello) =
              Unwrap(rcv.session).session_id \o <<":", "receiver", "\n">>
    /\ relay.s_acked => (IsSome(relay.s_hello) /\ relay.s_reply = READY_SIGNAL)
    /\ relay.r_acked => (IsSome(relay.r_hello) /\ relay.r_reply = READY_SIGNAL)
    /\ ~relay.s_acked => (s2r = <<>> /\ snd.wbuf = <<>>)
    /\ ~relay.r_acked => r2s = <<>>
    /\ snd.pc \in {"start", "hash", "sign", "serve", "serve_wait", "hello"} =>
          ~IsSome(relay.s_hello)
    /\ rcv.pc \in {"start", "listen", "listen_wait", "hello"} => ~IsSome(relay.r_hello)

\* both handshakes are over, the frames were sent and DONE has been answered
C28_Witness ==
    /\ relay.s_acked /\ relay.r_acked
    /\ r2s = DONE_SIGNAL
    /\ snd.pc # "returned" /\ rcv.pc = "returned"

\* C29: when the six bytes read after the handshake line are not READY\n, or
\* fewer than six arrive before the connection closes, connect_socket returns
\* NetworkError, ACK is never written, and serve or listen returns no session.
C29_ReadyMismatch ==
    /\ (relay.s_reply \notin {<<>>, READY_SIGNAL} /\ snd.pc # "wait_ready") =>
          /\ snd.pc = "returned"
          /\ snd.ret.kind = "NetworkError"
          /\ ~relay.s_acked
          /\ s2r = <<>>
    /\ (relay.r_reply \notin {<<>>, READY_SIGNAL} /\ rcv.pc # "wait_ready") =>
          /\ rcv.pc = "returned"
          /\ rcv.ret.kind = "NetworkError"
          /\ ~relay.r_acked
          /\ r2s = <<>>
          /\ ~outFile.exists

\* the sender was answered with six other bytes and the receiver with three
\* bytes and the close; both have returned
C29_Witness ==
    /\ Len(relay.s_reply) = READY_LEN /\ relay.s_reply # READY_SIGNAL
    /\ snd.ret = Err("NetworkError", "Expected READY signal")
    /\ relay.r_reply # <<>> /\ Len(relay.r_reply) < READY_LEN
    /\ rcv.ret = Err("NetworkError", "Failed to read READY signal")

\* what the sender has written to its connection and the receiver has not
\* yet read: forwarded bytes, then those its buffered writer still holds
SenderOutput == s2r \o snd.wbuf

\* the sender's loop has taken one more chunk
ChunkSent ==
    /\ snd.pc = "stream" /\ snd'.pc = "stream"
    /\ snd'.total_sent # snd.total_sent

\* C30: for each chunk, in file order, the sender writes a 4-byte length and
\* right after it exactly that many bytes; the length is the chunk's plaintext
\* length plus 28, the plaintext is at most FILE_CHUNK_SIZE bytes, the prefix
\* comes before its blob, and a frame starts only after the frame before it
\* was written completely.
C30_SenderWireFormat ==
    [][ChunkSent =>
         LET before == SenderOutput
             after == SenderOutput'
             prefix == after[Len(before) + 1]
             blob == after[Len(before) + 2]
             n == snd'.total_sent - snd.total_sent
             plaintext == SubSeq(srcFile, snd.total_sent + 1, snd.total_sent + n)
         IN  /\ Len(after) = Len(before) + 2
             /\ SubSeq(after, 1, Len(before)) = before
             /\ prefix.kind = "len" /\ blob.kind = "blob"
             /\ prefix.n = Unwrap(blob.blob).len
             /\ prefix.n = n + 12 + 16
             /\ n >= 1 /\ n <= FILE_CHUNK_SIZE
             /\ decrypt_chunk(Unwrap(snd.aes_key), Unwrap(blob.blob)) =
                   [ok |-> TRUE, plaintext |-> plaintext, err |-> "-"]
             /\ snd'.read = snd.read \o plaintext]_vars

\* two frames have been written, none read or altered yet
C30_Witness ==
    /\ snd.pc = "stream"
    /\ snd.total_sent = 2
    /\ ~wireTouched
    /\ Len(SenderOutput) = 4
    /\ SenderOutput[3].kind = "len" /\ SenderOutput[4].kind = "blob"

\* plaintext bytes the receiver has written to its file writer
ReceiverWritten == Len(outFile.data) + Len(rcv.fbuf)

\* C31: the receiver leaves the streaming loop without error only when
\* total_received equals file_size exactly, and it never writes more plaintext
\* bytes to the output file than the file_size of the envelope.
C31_StreamTermination ==
    /\ rcv.pc \in {"hash", "done"} => rcv.total_received = Session.file_size
    /\ rcv.pc \in {"loop", "blob", "hash", "done"} =>
          ReceiverWritten <= Session.file_size

\* the receiver takes a frame off the connection that AEAD-open rejects
ReadsFailingFrame ==
    /\ rcv.pc = "blob" /\ rcv' # rcv
    /\ s2r # <<>> /\ Head(s2r).kind = "blob"
    /\ Unwrap(Head(s2r).blob).len >= NONCE_LEN + TAG_LEN
    /\ ~AeadOpen(Unwrap(rcv.aes_key), Unwrap(Head(s2r).blob).nonce, Unwrap(Head(s2r).blob))

\* C32: once AEAD-open has failed on a frame the receiver's run is over with
\* CryptoError: it reads no further length prefix or frame, decrypts nothing
\* more, writes no further plaintext to the output file and never sends DONE.
C32_FatalTagFailure ==
    [][/\ ReadsFailingFrame =>
            /\ rcv'.pc = "returned" /\ rcv'.ret.kind = "CryptoError"
            /\ rcv'.frames = rcv.frames + 1
            /\ outFile' = outFile /\ r2s' = r2s
       /\ (rcv.pc = "returned" /\ rcv.ret.kind = "CryptoError") =>
            /\ rcv' = rcv
            /\ outFile' = outFile
            /\ Len(r2s') <= Len(r2s)
       /\ "aead_failed" \in rcv'.did => "done" \notin rcv'.did]_vars

\* the first frame did not open; the second is still on the connection,
\* unread, and the sender has returned
C32_Witness ==
    /\ "aead_failed" \in rcv.did
    /\ rcv.ret = Err("CryptoError", "decryption failed")
    /\ rcv.frames = 1
    /\ s2r # <<>>
    /\ snd.pc = "returned"

\* the sender has flushed its last frame and waits for the acknowledgement,
\* the receiver has read all there is and waits for a further length prefix,
\* and the connection is up
MutualWait ==
    /\ snd.pc = "ack"
    /\ rcv.pc = "loop" /\ rcv.total_received < Session.file_size
    /\ s2r = <<>> /\ r2s = <<>>
    /\ link = "up"

\* C33: the transfer never reaches a state in which the sender waits for the
\* acknowledgement while the receiver, with total_received below file_size,
\* waits for a further length prefix on the open connection, also when the
\* bytes the sender reads differ in number from the size it announced.
C33_NoMutualWait == ~MutualWait

\* the sender's acknowledgement wait ends while the five bytes of DONE, and
\* nothing else, have been delivered to it
ReadsDeliveredDone ==
    /\ snd.pc = "ack" /\ snd'.pc = "returned"
    /\ "done" \in rcv.did
    /\ r2s = DONE_SIGNAL

\* C34: when the receiver has written and flushed DONE and the relay delivers
\* all five bytes, the sender's acknowledgement wait reports confirmed receipt
\* however the byte stream is split into reads.
C34_AckRecognisedUnderSegmentation ==
    [][ReadsDeliveredDone => snd'.ack = "confirmed"]_vars

\* a client's handshake read ends with READY
SenderHandshakeDone == snd.pc = "wait_ready" /\ snd'.pc = "derive"
ReceiverHandshakeDone == rcv.pc = "wait_ready" /\ rcv'.pc = "check_fp"

\* C35: the handshake takes exactly the six bytes of READY\n from the
\* connection: every byte the relay forwards after READY\n stays, in order
\* and without loss, for the reads of the returned session.
C35_HandshakeConsumesSixBytes ==
    [][/\ SenderHandshakeDone =>
            /\ SubSeq(relay.s_reply, 1, READY_LEN) = READY_SIGNAL
            /\ r2s' = SubSeq(relay.s_reply, READY_LEN + 1, Len(relay.s_reply)) \o r2s
       /\ ReceiverHandshakeDone =>
            /\ SubSeq(relay.r_reply, 1, READY_LEN) = READY_SIGNAL
            /\ s2r' = SubSeq(relay.r_reply, READY_LEN + 1, Len(relay.r_reply)) \o s2r]_vars

\* the receiver has just finished its handshake; the sender has sent the
\* whole file as one frame, which waits on the connection behind READY
C35_Witness ==
    /\ rcv.pc = "check_fp" /\ relay.r_acked
    /\ snd.pc = "ack"
    /\ Len(s2r) = 2 /\ s2r[1].kind = "len" /\ s2r[2].kind = "blob"
    /\ ~wireTouched

\* the items the sender wrote that nobody has altered since
UnalteredOutput == IF wireTouched THEN snd.wbuf ELSE SenderOutput

\* C36: the sender never emits a frame with empty plaintext: every length
\* prefix lies between 29 and FILE_CHUNK_SIZE + 28 and so fits the four bytes
\* of the prefix (is below 2^32, written by its upper half); each frame the receiver accepts increases total_received;
\* for an empty source file the sender emits no frame and the receiver reads
\* none.
C36_NoEmptyFrame ==
    /\ \A k \in 1..Len(UnalteredOutput) :
          LET item == UnalteredOutput[k]
          IN  /\ item.kind = "len" =>
                    /\ item.n >= NONCE_LEN + TAG_LEN + 1
                    /\ item.n <= FILE_CHUNK_SIZE + NONCE_LEN + TAG_LEN
                    /\ item.n \div 2^16 < 2^16
              /\ item.kind = "blob" => Len(Unwrap(item.blob).ct.p) >= 1
    /\ rcv.pc \in {"loop", "hash", "done"} => rcv.total_received >= rcv.frames
    /\ (rcv.pc = "blob" /\ s2r # <<>> /\ Head(s2r).kind = "blob"
          /\ decrypt_chunk(Unwrap(rcv.aes_key), Unwrap(Head(s2r).blob)).ok) =>
          Len(decrypt_chunk(Unwrap(rcv.aes_key), Unwrap(Head(s2r).blob)).plaintext) >= 1
    /\ (snd.pc \in {"flush", "ack"} /\ snd.read = <<>>) =>
          (SenderOutput = <<>> /\ rcv.frames = 0)

\* the source file was empty when it was streamed: the sender waits for the
\* acknowledgement and the receiver, told a size of zero, has finished
C36_Witness ==
    /\ snd.pc = "ack" /\ snd.read = <<>>
    /\ rcv.pc = "returned" /\ rcv.ret = Ok /\ rcv.frames = 0
    /\ outFile.exists /\ outFile.data = <<>>

\* the arguments of the last command, and the lists before and after it
LastCmd == Unwrap(calc.cmd)
ListBefore == Unwrap(calc.before)
ListInMemory == Unwrap(calc.mem)
ListSaved == Unwrap(calc.config)

\* a command has run on an existing configuration file
CommandRan(ops) ==
    /\ IsSome(calc.cmd) /\ IsSome(calc.before)
    /\ LastCmd.op \in ops

NamesOf(server_list) == {server_list[k].server_name : k \in 1..Len(server_list)}
DefaultsOf(server_list) == {k \in 1..Len(server_list) : server_list[k].default}

\* C37: remove_server called with the name of an existing server that is not
\* the default returns Ok with that server's configuration, and afterwards
\* neither the list in memory nor the saved one contains the name, all other
\* servers being unchanged.  (A save that fails is left aside.)
C37_RemoveExistingServer ==
    (/\ CommandRan({"remove"})
     /\ \E k \in 1..Len(ListBefore) :
           ListBefore[k].server_name = LastCmd.name /\ ~ListBefore[k].default
     /\ calc.result.kind # "FileWrite") =>
        /\ calc.result = Ok
        /\ ListInMemory = SelectSeq(ListBefore, LAMBDA sv : sv.server_name # LastCmd.name)
        /\ ListSaved = ListInMemory

\* C38: from a configuration with exactly one default server, after any
\* sequence of add_server and remove_server calls, successful or not, the
\* list has exactly one server marked default and select_server without a
\* name succeeds; remove_server on the default server or on an unknown name
\* returns InvalidInput and leaves the list unchanged.
C38_ExactlyOneDefault ==
    /\ IsSome(calc.config) =>
          /\ Cardinality(DefaultsOf(ListSaved)) = 1
          /\ select_server(ListSaved, None).result = Ok
    /\ IsSome(calc.mem) =>
          /\ Cardinality(DefaultsOf(ListInMemory)) = 1
          /\ select_server(ListInMemory, None).result = Ok
    /\ (/\ CommandRan({"remove"})
        /\ \/ LastCmd.name \notin NamesOf(ListBefore)
           \/ \E k \in DefaultsOf(ListBefore) : ListBefore[k].server_name = LastCmd.name) =>
          /\ calc.result.kind = "InvalidInput"
          /\ ListInMemory = ListBefore
          /\ ListSaved = ListBefore

\* a server marked default was added to a list of two, and the default
\* server of before can no longer be selected without a name
C38_Witness ==
    /\ CommandRan({"add_server"})
    /\ LastCmd.default /\ calc.result = Ok
    /\ Len(ListSaved) = 3
    /\ Unwrap(select_server(ListSaved, None).server).server_name = LastCmd.name

\* C39: add_server rejects with InvalidInput, leaving the list unchanged and
\* unsaved, a server whose name is that of an existing server and also a
\* server whose IP is that of an existing server; after any sequence of
\* add_server calls no two servers share a name or an IP.
C39_AddRejectsDuplicates ==
    /\ (/\ CommandRan({"add", "add_server"})
        /\ \E k \in 1..Len(ListBefore) :
              \/ ListBefore[k].server_name = LastCmd.name
              \/ ListBefore[k].server_ip = LastCmd.ip) =>
          /\ calc.result.kind = "InvalidInput"
          /\ ListInMemory = ListBefore
          /\ ListSaved = ListBefore
    /\ IsSome(calc.config) =>
          \A j, k \in 1..Len(ListSaved) :
             j # k => /\ ListSaved[j].server_name # ListSaved[k].server_name
                      /\ ListSaved[j].server_ip # ListSaved[k].server_ip

====
